---- MODULE Spec2Model ----
(***************************************************************************)
(* Gyro Balls: the sensor-to-gravity adapters (gyroscope.js, mouse.js),    *)
(* the reset state machine (reset.js), the ball world of physics.js and    *)
(* the persisted ball count (settings.js), as one state machine.           *)
(*                                                                         *)
(* Numbers.  JavaScript numbers are IEEE doubles, rounded to nearest after *)
(* every operation.  A real r is held here as the integer nearest to       *)
(* r * Scale, and every multiplication, division and square root rounds    *)
(* to nearest in the same way.  Lengths on screen are held in half pixels, *)
(* so that innerWidth / 2 is exact.  Time is performance.now() in ms.      *)
(***************************************************************************)
EXTENDS Integers, Sequences, FiniteSets

VARIABLES
    now,                \* performance.now(), ms
    innerWidth,         \* window.innerWidth, px
    innerHeight,        \* window.innerHeight, px
    gravity,            \* engine.gravity, [x, y] in 1/Scale units
    stepGravity,        \* the gravity the last Engine.update ran with
    stepWhileResetting, \* _isResetting at the time of that Engine.update
    lastWriter,         \* which handler wrote engine.gravity last
    lastEvent,          \* the input of that handler: [kind, a, b, w, h]
    _isResetting,       \* reset.js _isResetting
    _lastShakeMs,       \* reset.js _lastShakeMs
    _gravityOverride,   \* reset.js _gravityOverride: <<>> (null) or <<[x, y]>>
    _lastTapMs,         \* reset.js _lastTapMs
    tapped,             \* whether a touchend has reached the canvas since the load
    timers,             \* the pending setInterval timers: <<[count, due]>>
    overlayHidden,      \* #countdown-overlay has class hidden
    numberEl,           \* #countdown-number textContent (0: nothing written)
    shown,              \* the numbers written to numberEl since the last trigger
    beepCalls,          \* the steps playCountdownBeep was called with since then
    trigger,            \* the listener that called _triggerReset last
    resets,             \* the number of countdowns started
    deviceMotion,       \* typeof DeviceMotionEvent !== 'undefined'
    world,              \* engine.world.bodies, a sequence of [label, rect]
    currentWalls,       \* walls.js currentWalls
    canvas,             \* the canvas and renderer size, [width, height]
    localStorage,       \* [gyroballs_count |-> <<>> (no item) or <<string>>]
    sliderBalls,        \* #ball-count value
    displayBalls,       \* #ball-count-display textContent, a string
    permissionRequired, \* gyroscope.js _permissionRequired()
    gyroPc,             \* where initGyroscope stands
    permissionOverlayHidden, \* #permission-overlay has class hidden
    orientationListener,     \* the deviceorientation listener is attached
    nullCount,          \* gyroscope.js nullCount
    mouseListeners,     \* the number of mousemove listeners initMouse attached
    onDeniedCalls,      \* how often the onDenied / onNoGyroscope callback ran
    permissionState,    \* what requestPermission() settled to ("unasked" before)
    nullRun,            \* the deviceorientation events without data delivered
                        \* since the listener was attached or last got data
    audio,              \* window.AudioContext: "ok", "missing" or "throws"
    vibrate,            \* navigator.vibrate: "ok", "missing" or "throws"
    sound_enabled,      \* sound.js _enabled
    sound_ctx,          \* sound.js _ctx is not null
    sound_cooldowns,    \* sound.js _cooldowns: key |-> <<>> (no entry) or <<ms>>
    vibration_enabled,  \* vibration.js _enabled
    vibration_supported, \* vibration.js _supported
    vibration_cooldowns, \* vibration.js _cooldowns
    soundAt,            \* when a collision sound was last started, by pair of ids
    vibrateAt,          \* when navigator.vibrate was last called, by pair of ids
    speedCall,          \* the last call of the speed mappings: <<>> or <<[speed, volume, duration]>>
    checkSound,         \* #toggle-sound checked
    checkVibration,     \* #toggle-vibration checked
    panelHidden,        \* #settings-panel has class hidden
    ariaExpanded,       \* #btn-settings aria-expanded: <<>> (not set) or <<string>>
    soundOut,           \* the sounds started by the handler that ran last
    vibrateOut,         \* the navigator.vibrate calls of the handler that ran last
    uncaught,           \* that handler ended by an exception nobody caught
    lastSetSound,       \* the argument of the last setSoundEnabled call, or <<>>
    lastSetVibration,   \* the argument of the last setVibrationEnabled call, or <<>>
    lastClick,          \* where the last click went: "gear", "panel" or "outside"
    clicks,             \* the number of clicks so far
    lastChange,         \* the value of the slider's last 'change' event, or <<>>
    setSinceLoad,       \* a setter of a flag was called since the page loaded
    lastSliderEvent,    \* the slider's last event since the page loaded, or "none"
    changeWhileResetting \* the slider's last 'change' came during a countdown

vars == <<now, innerWidth, innerHeight, gravity, stepGravity, stepWhileResetting,
          lastWriter, lastEvent, _isResetting, _lastShakeMs, _gravityOverride,
          _lastTapMs, tapped, timers, overlayHidden, numberEl, shown, beepCalls, trigger,
          resets,
          deviceMotion, world, currentWalls, canvas, localStorage, sliderBalls,
          displayBalls,
          permissionRequired, gyroPc, permissionOverlayHidden,
          orientationListener, nullCount, mouseListeners, onDeniedCalls,
          permissionState, nullRun, audio, vibrate, sound_enabled, sound_ctx,
          sound_cooldowns, vibration_enabled, vibration_supported,
          vibration_cooldowns, soundAt, vibrateAt, speedCall,
                   checkSound, checkVibration, panelHidden,
          ariaExpanded, soundOut, vibrateOut, uncaught, lastSetSound,
          lastSetVibration, lastClick, clicks, lastChange, setSinceLoad,
          lastSliderEvent, changeWhileResetting>>

physVars == <<gravity, stepGravity, stepWhileResetting, lastWriter, lastEvent>>
resetVars == <<_isResetting, _lastShakeMs, _gravityOverride, timers, overlayHidden,
               numberEl, shown, beepCalls, trigger, resets>>
worldVars == <<world, currentWalls, canvas, localStorage, sliderBalls, displayBalls,
               lastChange, lastSliderEvent, changeWhileResetting>>
gyroVars == <<gyroPc, permissionOverlayHidden, orientationListener, nullCount,
              mouseListeners, onDeniedCalls, permissionState, nullRun>>
envVars == <<innerWidth, innerHeight, deviceMotion, permissionRequired>>
\* what no handler outside sound.js, vibration.js and the settings panel touches
feedbackVars == <<audio, vibrate, sound_enabled, sound_cooldowns, vibration_enabled,
                  vibration_supported, vibration_cooldowns, soundAt, vibrateAt, speedCall,
                   checkSound,
                  checkVibration, panelHidden, ariaExpanded, lastSetSound,
                  lastSetVibration, lastClick, clicks, setSinceLoad>>

----------------------------------------------------------------------------
(* Bounds of the model *)

\* resolution of the fixed-point numbers: 1/Scale
Scale == 1000
\* the clock stops here
MaxTime == 5000
\* longest string drawn for the stored ball count
MaxStrLen == 3
\* the clicks on the page that are followed
MaxClicks == 4
\* the clock stops here where collisions are followed
FeedbackHorizon == 3000
ThrottleHorizon == 160
MaxSpeed == 25

----------------------------------------------------------------------------
(* Arithmetic *)

\* A value that may be null or absent is <<>> (null) or <<v>>.
Coalesce(v, d) == IF v = <<>> THEN d ELSE v[1]

Abs(a) == IF a < 0 THEN -a ELSE a

Sgn(a) == IF a < 0 THEN -1 ELSE 1

\* a / b rounded to the nearest integer (b > 0)
RDiv(a, b) == Sgn(a) * ((2 * Abs(a) + b) \div (2 * b))

RECURSIVE SqrtSearch(_, _, _)
\* the largest r in lo..hi with r * r <= n
SqrtSearch(n, lo, hi) ==
    IF lo >= hi THEN lo
    ELSE LET mid == (lo + hi + 1) \div 2
         IN  IF mid * mid <= n THEN SqrtSearch(n, mid, hi)
                               ELSE SqrtSearch(n, lo, mid - 1)

\* the square root of n rounded to the nearest integer
ISqrt(n) ==
    LET r == SqrtSearch(n, 0, 46340)
    IN  IF n - r * r > r THEN r + 1 ELSE r

FMul(a, b) == RDiv(a * b, Scale)
FDiv(a, b) == RDiv(a * Scale, b)
FSqrt(a) == ISqrt(a * Scale)

\* Math.sin of a whole number of degrees, a multiple of 15, in thousandths
SinTable == <<0, 259, 500, 707, 866, 966, 1000>>

\* for -180 <= d <= 180: sin(-d) = -sin(d), sin(180 - d) = sin(d)
SinDeg(d) ==
    LET m == Abs(d)
        r == IF m > 90 THEN 180 - m ELSE m           \* 0 <= r <= 90
    IN  Sgn(d) * RDiv(SinTable[(r \div 15) + 1] * Scale, 1000)

\* the exact square of the magnitude of a vector, in 1/Scale^2 units
MagSq(g) == g.x * g.x + g.y * g.y

----------------------------------------------------------------------------
(* gyroscope.js and mouse.js: the tilt / cursor to gravity mapping *)

\* 2.5
MAX_GRAVITY == (5 * Scale) \div 2
TILT_SCALE == 45
NO_DATA_THRESHOLD == 5

Zero == [x |-> 0, y |-> 0]

\* _onDeviceOrientation without the clamp and with beta scaled as gamma is
TiltLinearNoClamp(beta, gamma) ==
    [x |-> RDiv(Coalesce(gamma, 0) * Scale, TILT_SCALE),
     y |-> RDiv(Coalesce(beta, 90) * Scale, TILT_SCALE)]

\* the vector _onDeviceOrientation writes for an event with real data;
\* beta and gamma are <<>> (null) or <<degrees>>
TiltToGravity(beta, gamma) ==
    LET gx  == RDiv(Coalesce(gamma, 0) * Scale, TILT_SCALE)
        gy  == SinDeg(Coalesce(beta, 90))
        mag == FSqrt(FMul(gx, gx) + FMul(gy, gy))
    IN  IF mag > MAX_GRAVITY
        THEN [x |-> FMul(FDiv(gx, mag), MAX_GRAVITY),
              y |-> FMul(FDiv(gy, mag), MAX_GRAVITY)]
        ELSE [x |-> gx, y |-> gy]

\* _onMouseMove measuring the offset from the corner, not from the centre
MouseFromCorner(clientX2, clientY2, w, h) ==
    [x |-> FMul(RDiv(clientX2 * Scale, w), MAX_GRAVITY),
     y |-> FMul(RDiv(clientY2 * Scale, h), MAX_GRAVITY)]

\* the vector _onMouseMove writes; clientX2, clientY2 are the cursor position
\* in half pixels, w and h the viewport in pixels, so that cx = w half pixels
MouseToGravity(clientX2, clientY2, w, h) ==
    LET cx  == w
        cy  == h
        nx  == RDiv((clientX2 - cx) * Scale, cx)
        ny  == RDiv((clientY2 - cy) * Scale, cy)
        gx  == FMul(nx, MAX_GRAVITY)
        gy  == FMul(ny, MAX_GRAVITY)
        mag == FSqrt(FMul(gx, gx) + FMul(gy, gy))
    IN  IF mag > MAX_GRAVITY
        THEN [x |-> FMul(FDiv(gx, mag), MAX_GRAVITY),
              y |-> FMul(FDiv(gy, mag), MAX_GRAVITY)]
        ELSE [x |-> gx, y |-> gy]

----------------------------------------------------------------------------
(* The stored ball count: strings are sequences of one-character strings *)

DEFAULT_BALL_COUNT == 10

Digits == <<"0", "1", "2", "3", "4", "5", "6", "7", "8", "9">>

IsDigit(c) == \E i \in 1..10 : Digits[i] = c

DigitVal(c) == (CHOOSE i \in 1..10 : Digits[i] = c) - 1

\* the white space parseInt skips
IsSpace(c) == c = " "

RECURSIVE SkipSpace(_)
SkipSpace(s) ==
    IF s # <<>> /\ IsSpace(Head(s)) THEN SkipSpace(Tail(s)) ELSE s

RECURSIVE DigitPrefix(_)
\* the longest prefix of s made of digits
DigitPrefix(s) ==
    IF s # <<>> /\ IsDigit(Head(s)) THEN <<Head(s)>> \o DigitPrefix(Tail(s))
    ELSE <<>>

RECURSIVE DigitsValue(_, _)
DigitsValue(s, acc) ==
    IF s = <<>> THEN acc ELSE DigitsValue(Tail(s), 10 * acc + DigitVal(Head(s)))

\* parseInt(s, 10): <<>> is NaN, <<n>> the number
ParseInt(s) ==
    LET t    == SkipSpace(s)
        neg  == t # <<>> /\ Head(t) = "-"
        body == IF t # <<>> /\ Head(t) \in {"-", "+"} THEN Tail(t) ELSE t
        ds   == DigitPrefix(body)
    IN  IF ds = <<>> THEN <<>>
        ELSE <<(IF neg THEN -1 ELSE 1) * DigitsValue(ds, 0)>>

RECURSIVE NatToString(_)
NatToString(n) ==
    IF n < 10 THEN <<Digits[n + 1]>>
    ELSE NatToString(n \div 10) \o <<Digits[(n % 10) + 1]>>

\* String(n) of an integer
ToString(n) == IF n < 0 THEN <<"-">> \o NatToString(-n) ELSE NatToString(n)

Min(a, b) == IF a < b THEN a ELSE b
Max(a, b) == IF a > b THEN a ELSE b

\* localStorage.getItem(key) || ''
GetItemOrEmpty(store, key) == Coalesce(store[key], <<>>)

\* a reader that falls back to the default but does not clamp
StoredBallCountNoClamp(store) ==
    Coalesce(ParseInt(GetItemOrEmpty(store, "gyroballs_count")), DEFAULT_BALL_COUNT)

\* physics.js _storedBallCount
physics_storedBallCount(store) ==
    LET stored == ParseInt(GetItemOrEmpty(store, "gyroballs_count"))
    IN  IF stored = <<>> THEN DEFAULT_BALL_COUNT
        ELSE Min(30, Max(1, stored[1]))

\* reset.js _storedBallCount
reset_storedBallCount(store) ==
    LET n == ParseInt(GetItemOrEmpty(store, "gyroballs_count"))
    IN  IF n = <<>> THEN 10 ELSE Min(30, Max(1, n[1]))

\* settings.js _applyStoredValues: the count given to the slider
settings_storedCount(store) ==
    LET storedCount == ParseInt(GetItemOrEmpty(store, "gyroballs_count"))
    IN  IF storedCount = <<>> THEN 10 ELSE Min(30, Max(1, storedCount[1]))

\* A body is [label, rect]: rect is <<>> for a circle, whose place, radius and
\* material are drawn at random and not followed here, or <<[x2, y2, width,
\* height]>> for a rectangle, its centre in half pixels and its size in pixels.
Ball == [label |-> "ball", rect |-> <<>>]

\* Composite.add(engine.world, added)
CompositeAdd(bodies, added) == bodies \o added

\* Composite.remove(engine.world, removed)
CompositeRemove(bodies, removed) ==
    SelectSeq(bodies, LAMBDA b : \A j \in 1..Len(removed) : removed[j] # b)

\* _resetBalls that creates the default number of balls whatever it is given
ResetBallsDefault(bodies, count) ==
    CompositeAdd(bodies, [i \in 1..10 |-> Ball])

\* physics.js _addBalls and _resetBalls: count bodies labelled 'ball' are added
AddBalls(bodies, count) == CompositeAdd(bodies, [i \in 1..Max(0, count) |-> Ball])
ResetBalls(bodies, count) == CompositeAdd(bodies, [i \in 1..Max(0, count) |-> Ball])

\* physics.js _removeAllBalls: every body labelled 'ball' is removed
RemoveAllBalls(bodies) ==
    CompositeRemove(bodies, SelectSeq(bodies, LAMBDA b : b.label = "ball"))

\* the number of bodies labelled 'ball' in engine.world
worldBalls == Len(SelectSeq(world, LAMBDA b : b.label = "ball"))

----------------------------------------------------------------------------
(* walls.js: the four walls around the viewport *)

WALL_THICKNESS == 60

\* _buildWalls() for a viewport of w by h pixels
BuildWalls(w, h) ==
    LET t == WALL_THICKNESS
    IN  <<[label |-> "wall-top",
           rect |-> <<[x2 |-> w, y2 |-> -t, width |-> w + t * 2, height |-> t]>>],
          [label |-> "wall-bottom",
           rect |-> <<[x2 |-> w, y2 |-> 2 * h + t, width |-> w + t * 2, height |-> t]>>],
          [label |-> "wall-left",
           rect |-> <<[x2 |-> -t, y2 |-> h, width |-> t, height |-> h + t * 2]>>],
          [label |-> "wall-right",
           rect |-> <<[x2 |-> 2 * w + t, y2 |-> h, width |-> t, height |-> h + t * 2]>>]>>

----------------------------------------------------------------------------
(* sound.js and vibration.js: the feedback on collisions and countdowns *)

\* 1.0 and 20, in 1/Scale units
MIN_SPEED == Scale
MAX_SPEED == 20 * Scale
COOLDOWN_MS == 80
MIN_DURATION_MS == 10
MAX_DURATION_MS == 40

\* A JavaScript value is [t, v]: its type and its value written as a string.
JsBool(b) == [t |-> "boolean", v |-> IF b THEN "true" ELSE "false"]

\* Boolean(x)
ToBoolean(x) ==
    IF x.t = "boolean" THEN x.v = "true"
    ELSE IF x.t = "number" THEN x.v \notin {"0", "NaN"}
    ELSE IF x.t = "string" THEN x.v # ""
    ELSE FALSE

\* sound.js and vibration.js _readEnabled, for the item under key
ReadEnabled(store, key) ==
    LET stored == store[key]
    IN  IF stored = <<>> THEN TRUE ELSE stored[1] # <<"0">>

\* the flag stored as the word a boolean prints as
FlagStringWords(enabled) ==
    IF enabled THEN <<"t", "r", "u", "e">> ELSE <<"f", "a", "l", "s", "e">>

\* what setSoundEnabled and setVibrationEnabled store for the flag
FlagString(enabled) == IF enabled THEN <<"1">> ELSE <<"0">>

\* _getContext without its try / catch around new Ctor()
GetContextNoCatch(created) ==
    IF audio = "missing" THEN [ctx |-> FALSE, created |-> created, threw |-> FALSE]
    ELSE IF ~created /\ audio = "throws"
         THEN [ctx |-> FALSE, created |-> FALSE, threw |-> TRUE]
         ELSE [ctx |-> TRUE, created |-> TRUE, threw |-> FALSE]

\* sound.js _getContext when _ctx is set or not (created): whether a context is
\* returned (ctx), whether _ctx is set afterwards, whether the call threw
GetContext(created) ==
    IF audio = "missing" THEN [ctx |-> FALSE, created |-> created, threw |-> FALSE]
    ELSE IF ~created /\ audio = "throws"
         THEN [ctx |-> FALSE, created |-> FALSE, threw |-> FALSE]
         ELSE [ctx |-> TRUE, created |-> TRUE, threw |-> FALSE]

\* freqMap[step] ?? 440
BeepFrequency(step) ==
    IF step = 1 THEN 440 ELSE IF step = 2 THEN 554 ELSE IF step = 3 THEN 659 ELSE 440

\* playCountdownBeep that does not look at _enabled
PlayCountdownBeepAlways(step) ==
    LET c == GetContext(sound_ctx)
    IN  [out |-> IF c.ctx THEN <<[kind |-> "beep", param |-> BeepFrequency(step),
                                    ids |-> <<>>]>>
                 ELSE <<>>,
         created |-> c.created, threw |-> c.threw]

\* sound.js playCountdownBeep(step): the oscillators started (out), whether _ctx
\* is set afterwards, whether the call threw
PlayCountdownBeep(step) ==
    IF ~sound_enabled
    THEN [out |-> <<>>, created |-> sound_ctx, threw |-> FALSE]
    ELSE LET c == GetContext(sound_ctx)
         IN  [out |-> IF c.ctx THEN <<[kind |-> "beep", param |-> BeepFrequency(step),
                                         ids |-> <<>>]>>
                      ELSE <<>>,
              created |-> c.created, threw |-> c.threw]

\* A collision pair is [bodyA, bodyB], a body [id, label, vx, vy], the velocity
\* in 1/Scale px per tick.
WallLabels == {"wall-top", "wall-bottom", "wall-left", "wall-right"}

\* label.startsWith('wall-'), on the labels the world holds
IsWallLabel(label) == label \in WallLabels

\* _onCollision judging a ball-ball pair on the speed of body A alone
PairSpeedOfBodyA(pair) ==
    LET aIsBall == pair.bodyA.label = "ball"
        bIsBall == pair.bodyB.label = "ball"
        aIsWall == IsWallLabel(pair.bodyA.label)
        bIsWall == IsWallLabel(pair.bodyB.label)
    IN  IF (aIsBall /\ bIsBall) \/ (aIsBall /\ bIsWall) \/ (bIsBall /\ aIsWall)
        THEN LET ball == IF aIsBall THEN pair.bodyA ELSE pair.bodyB
             IN  <<FSqrt(FMul(ball.vx, ball.vx) + FMul(ball.vy, ball.vy))>>
        ELSE <<>>

\* the speed _onCollision judges a pair on: <<>> when the pair is neither
\* ball-ball nor ball-wall, else <<speed>>
PairSpeed(pair) ==
    LET aIsBall == pair.bodyA.label = "ball"
        bIsBall == pair.bodyB.label = "ball"
        aIsWall == IsWallLabel(pair.bodyA.label)
        bIsWall == IsWallLabel(pair.bodyB.label)
    IN  IF aIsBall /\ bIsBall
        THEN LET dvx == pair.bodyA.vx - pair.bodyB.vx
                 dvy == pair.bodyA.vy - pair.bodyB.vy
             IN  <<FSqrt(FMul(dvx, dvx) + FMul(dvy, dvy))>>
        ELSE IF (aIsBall /\ bIsWall) \/ (bIsBall /\ aIsWall)
        THEN LET ball == IF aIsBall THEN pair.bodyA ELSE pair.bodyB
             IN  <<FSqrt(FMul(ball.vx, ball.vx) + FMul(ball.vy, ball.vy))>>
        ELSE <<>>

\* _pairKey that keeps the ids in the order given
PairKeyInOrder(idA, idB) == <<idA, idB>>

\* _pairKey(idA, idB): the two ids, the smaller first
PairKey(idA, idB) == IF idA < idB THEN <<idA, idB>> ELSE <<idB, idA>>

\* sound.js _speedToVolume, in 1/Scale units
SpeedToVolume(speed) == Min(Scale, FDiv(speed - MIN_SPEED, MAX_SPEED - MIN_SPEED))

\* Math.round of a value in 1/Scale units that is not negative
Round(v) == (2 * v + Scale) \div (2 * Scale)

\* _speedToDuration without the Math.max(0, ...)
SpeedToDurationNoFloor(speed) ==
    LET t == Min(Scale, FDiv(speed - MIN_SPEED, MAX_SPEED - MIN_SPEED))
    IN  Round(MIN_DURATION_MS * Scale + t * (MAX_DURATION_MS - MIN_DURATION_MS))

\* vibration.js _speedToDuration, in ms
SpeedToDuration(speed) ==
    LET t == Min(Scale, Max(0, FDiv(speed - MIN_SPEED, MAX_SPEED - MIN_SPEED)))
    IN  Round(MIN_DURATION_MS * Scale + t * (MAX_DURATION_MS - MIN_DURATION_MS))

\* the body of the loop of sound.js _onCollision for one pair; st is
\* [cooldowns, created, out, threw]
SoundPair(pair, st) ==
    LET speed == PairSpeed(pair)
        key   == PairKey(pair.bodyA.id, pair.bodyB.id)
        c     == GetContext(st.created)
        isBallBall == pair.bodyA.label = "ball" /\ pair.bodyB.label = "ball"
    IN  IF speed = <<>> THEN st
        ELSE IF speed[1] < MIN_SPEED THEN st
        ELSE IF now - Coalesce(st.cooldowns[key], 0) < COOLDOWN_MS THEN st
        ELSE [cooldowns |-> [st.cooldowns EXCEPT ![key] = <<now>>],
              created   |-> c.created,
              out       |-> IF c.ctx
                            THEN Append(st.out,
                                        [kind  |-> IF isBallBall THEN "ball" ELSE "wall",
                                         param |-> SpeedToVolume(speed[1]),
                                         ids   |-> <<pair.bodyA.id, pair.bodyB.id>>])
                            ELSE st.out,
              threw     |-> c.threw]

RECURSIVE SoundPairs(_, _)
\* the loop of sound.js _onCollision; an exception ends it
SoundPairs(pairs, st) ==
    IF pairs = <<>> \/ st.threw THEN st
    ELSE SoundPairs(Tail(pairs), SoundPair(Head(pairs), st))

\* sound.js _onCollision that does not look at _enabled
SoundOnCollisionAlways(pairs) ==
    SoundPairs(pairs, [cooldowns |-> sound_cooldowns, created |-> sound_ctx,
                       out |-> <<>>, threw |-> FALSE])

\* sound.js _onCollision(event)
SoundOnCollision(pairs) ==
    LET st == [cooldowns |-> sound_cooldowns, created |-> sound_ctx,
               out |-> <<>>, threw |-> FALSE]
    IN  IF ~sound_enabled THEN st ELSE SoundPairs(pairs, st)

\* the loop body with no try / catch around navigator.vibrate
VibrationPairNoCatch(pair, st) ==
    LET speed == PairSpeed(pair)
        key   == PairKey(pair.bodyA.id, pair.bodyB.id)
    IN  IF speed = <<>> THEN st
        ELSE IF speed[1] < MIN_SPEED THEN st
        ELSE IF now - Coalesce(st.cooldowns[key], 0) < COOLDOWN_MS THEN st
        ELSE [cooldowns |-> [st.cooldowns EXCEPT ![key] = <<now>>],
              out       |-> Append(st.out, [duration |-> SpeedToDuration(speed[1]),
                                            ids |-> <<pair.bodyA.id, pair.bodyB.id>>]),
              threw     |-> vibrate = "throws"]

\* the body of the loop of vibration.js _onCollision for one pair; st is
\* [cooldowns, out, threw], out the durations navigator.vibrate was called with
VibrationPair(pair, st) ==
    LET speed == PairSpeed(pair)
        key   == PairKey(pair.bodyA.id, pair.bodyB.id)
    IN  IF speed = <<>> THEN st
        ELSE IF speed[1] < MIN_SPEED THEN st
        ELSE IF now - Coalesce(st.cooldowns[key], 0) < COOLDOWN_MS THEN st
        ELSE [cooldowns |-> [st.cooldowns EXCEPT ![key] = <<now>>],
              out       |-> Append(st.out, [duration |-> SpeedToDuration(speed[1]),
                                            ids |-> <<pair.bodyA.id, pair.bodyB.id>>]),
              threw     |-> FALSE]

RECURSIVE VibrationPairs(_, _)
\* the loop of vibration.js _onCollision; an exception ends it
VibrationPairs(pairs, st) ==
    IF pairs = <<>> \/ st.threw THEN st
    ELSE VibrationPairs(Tail(pairs), VibrationPair(Head(pairs), st))

\* vibration.js _onCollision that does not look at _enabled
VibrationOnCollisionAlways(pairs) ==
    VibrationPairs(pairs, [cooldowns |-> vibration_cooldowns, out |-> <<>>,
                           threw |-> FALSE])

\* vibration.js _onCollision(event)
VibrationOnCollision(pairs) ==
    LET st == [cooldowns |-> vibration_cooldowns, out |-> <<>>, threw |-> FALSE]
    IN  IF ~vibration_enabled THEN st ELSE VibrationPairs(pairs, st)

\* a handler that starts no sound and calls nothing of sound.js
NoBeep ==
    /\ soundOut' = <<>>
    /\ uncaught' = FALSE
    /\ UNCHANGED sound_ctx

\* a handler that gives no feedback at all
Quiet ==
    /\ NoBeep
    /\ vibrateOut' = <<>>

----------------------------------------------------------------------------
(* reset.js: the reset state machine *)

SHAKE_THRESHOLD == 22
SHAKE_COOLDOWN_MS == 4500
DOUBLE_TAP_MS == 350

\* the period of the countdown's setInterval, ms
COUNTDOWN_INTERVAL_MS == 1000

\* s without its i-th element
RemoveAt(s, i) == SubSeq(s, 1, i - 1) \o SubSeq(s, i + 1, Len(s))

\* the step that goes with the count: playCountdownBeep(count) for
\* playCountdownBeep(4 - count)
BeepStepIsCount(count) == count

\* the step _triggerReset passes to playCountdownBeep with the count displayed
BeepStep(count) == 4 - count

\* a listener of reset.js that starts no countdown
NoReset ==
    /\ UNCHANGED resetVars
    /\ NoBeep

\* _triggerReset that never sets _isResetting
TriggerResetFlagNotSet(kind) ==
    LET beep == PlayCountdownBeep(BeepStep(3))
    IN  /\ _lastShakeMs' = now
        /\ _gravityOverride' = <<Zero>>
        /\ overlayHidden' = FALSE
        /\ numberEl' = 3
        /\ shown' = <<3>>
        /\ beepCalls' = <<BeepStep(3)>>
        /\ soundOut' = beep.out
        /\ sound_ctx' = beep.created
        /\ uncaught' = beep.threw
        /\ timers' = IF beep.threw THEN timers
                     ELSE Append(timers, [count |-> 3,
                                          due |-> now + COUNTDOWN_INTERVAL_MS])
        /\ trigger' = kind
        /\ resets' = resets + 1
        /\ UNCHANGED _isResetting

\* _triggerReset that never calls setInterval
TriggerResetNoInterval(kind) ==
    IF _isResetting
    THEN NoReset
    ELSE LET beep == PlayCountdownBeep(BeepStep(3))
         IN  /\ _isResetting' = TRUE
             /\ _lastShakeMs' = now
             /\ _gravityOverride' = <<Zero>>
             /\ overlayHidden' = FALSE
             /\ numberEl' = 3
             /\ shown' = <<3>>
             /\ beepCalls' = <<BeepStep(3)>>
             /\ soundOut' = beep.out
             /\ sound_ctx' = beep.created
             /\ uncaught' = beep.threw
             /\ trigger' = kind
             /\ resets' = resets + 1
             /\ UNCHANGED timers

\* _triggerReset(), called by the listener `kind`; an exception thrown by
\* playCountdownBeep would end it before setInterval
TriggerReset(kind) ==
    IF _isResetting
    THEN NoReset
    ELSE LET beep == PlayCountdownBeep(BeepStep(3))
         IN  /\ _isResetting' = TRUE
             /\ _lastShakeMs' = now
             /\ _gravityOverride' = <<Zero>>
             /\ overlayHidden' = FALSE
             /\ numberEl' = 3
             /\ shown' = <<3>>
             /\ beepCalls' = <<BeepStep(3)>>
             /\ soundOut' = beep.out
             /\ sound_ctx' = beep.created
             /\ uncaught' = beep.threw
             /\ timers' = IF beep.threw THEN timers
                          ELSE Append(timers, [count |-> 3,
                                               due |-> now + COUNTDOWN_INTERVAL_MS])
             /\ trigger' = kind
             /\ resets' = resets + 1

\* the setInterval callback of timer i that never clears its timer
TimerFireNoClear(i) ==
    LET t == timers[i]
        c == t.count - 1
        beep == PlayCountdownBeep(BeepStep(c))
    IN  /\ t.due = now
        /\ timers' = [timers EXCEPT ![i] = [count |-> c,
                                            due |-> t.due + COUNTDOWN_INTERVAL_MS]]
        /\ IF c > 0
           THEN /\ numberEl' = c
                /\ shown' = Append(shown, c)
                /\ beepCalls' = Append(beepCalls, BeepStep(c))
                /\ soundOut' = beep.out
                /\ sound_ctx' = beep.created
                /\ uncaught' = beep.threw
                /\ UNCHANGED <<_isResetting, _gravityOverride, overlayHidden, world>>
           ELSE /\ overlayHidden' = TRUE
                /\ world' = ResetBalls(RemoveAllBalls(world),
                                       reset_storedBallCount(localStorage))
                /\ _gravityOverride' = <<>>
                /\ _isResetting' = FALSE
                /\ NoBeep
                /\ UNCHANGED <<numberEl, shown, beepCalls>>
        /\ vibrateOut' = <<>>
        /\ UNCHANGED <<now, _lastShakeMs, trigger, resets, _lastTapMs, tapped, physVars,
                       currentWalls, canvas, localStorage, sliderBalls, displayBalls,
                       lastChange, lastSliderEvent,
                   changeWhileResetting, gyroVars, envVars, feedbackVars>>

\* the setInterval callback of timer i, run when the timer is due
TimerFire(i) ==
    LET t == timers[i]
        c == t.count - 1
        beep == PlayCountdownBeep(BeepStep(c))
    IN  /\ t.due = now
        /\ IF c > 0
           THEN /\ numberEl' = c
                /\ shown' = Append(shown, c)
                /\ beepCalls' = Append(beepCalls, BeepStep(c))
                /\ soundOut' = beep.out
                /\ sound_ctx' = beep.created
                /\ uncaught' = beep.threw
                /\ timers' = [timers EXCEPT ![i] = [count |-> c,
                                                    due |-> t.due + COUNTDOWN_INTERVAL_MS]]
                /\ UNCHANGED <<_isResetting, _gravityOverride, overlayHidden, world>>
           ELSE /\ timers' = RemoveAt(timers, i)
                /\ overlayHidden' = TRUE
                /\ world' = ResetBalls(RemoveAllBalls(world),
                                       reset_storedBallCount(localStorage))
                /\ _gravityOverride' = <<>>
                /\ _isResetting' = FALSE
                /\ NoBeep
                /\ UNCHANGED <<numberEl, shown, beepCalls>>
        /\ vibrateOut' = <<>>
        /\ UNCHANGED <<now, _lastShakeMs, trigger, resets, _lastTapMs, tapped, physVars,
                       currentWalls, canvas, localStorage, sliderBalls, displayBalls,
                       lastChange, lastSliderEvent,
                   changeWhileResetting, gyroVars, envVars, feedbackVars>>

\* the square of the magnitude the devicemotion listener computes; a is
\* [x, y, z], each <<>> (null) or <<m/s^2>>
AccelMagSq(a) ==
    Coalesce(a.x, 0) * Coalesce(a.x, 0) + Coalesce(a.y, 0) * Coalesce(a.y, 0)
        + Coalesce(a.z, 0) * Coalesce(a.z, 0)

\* the devicemotion listener without its cooldown test
DeviceMotionNoCooldown(acc) ==
    /\ deviceMotion
    /\ IF _isResetting THEN NoReset
       ELSE IF acc = <<>> THEN NoReset
       ELSE IF AccelMagSq(acc[1]) > SHAKE_THRESHOLD * SHAKE_THRESHOLD
            THEN TriggerReset("shake")
            ELSE NoReset
    /\ vibrateOut' = <<>>
    /\ UNCHANGED <<now, _lastTapMs, tapped, physVars, worldVars, gyroVars, envVars,
                   feedbackVars>>

\* the devicemotion listener that takes a magnitude equal to the threshold for
\* a shake
DeviceMotionAtThreshold(acc) ==
    /\ deviceMotion
    /\ IF _isResetting THEN NoReset
       ELSE IF now - _lastShakeMs < SHAKE_COOLDOWN_MS THEN NoReset
       ELSE IF acc = <<>> THEN NoReset
       ELSE IF AccelMagSq(acc[1]) >= SHAKE_THRESHOLD * SHAKE_THRESHOLD
            THEN TriggerReset("shake")
            ELSE NoReset
    /\ vibrateOut' = <<>>
    /\ UNCHANGED <<now, _lastTapMs, tapped, physVars, worldVars, gyroVars, envVars,
                   feedbackVars>>

\* the devicemotion listener; acc is e.accelerationIncludingGravity,
\* <<>> (null) or <<[x, y, z]>>.  mag > SHAKE_THRESHOLD is decided on the
\* squares: Math.sqrt is monotone and exact on 22 * 22.
DeviceMotion(acc) ==
    /\ deviceMotion
    /\ IF _isResetting THEN NoReset
       ELSE IF now - _lastShakeMs < SHAKE_COOLDOWN_MS THEN NoReset
       ELSE IF acc = <<>> THEN NoReset
       ELSE IF AccelMagSq(acc[1]) > SHAKE_THRESHOLD * SHAKE_THRESHOLD
            THEN TriggerReset("shake")
            ELSE NoReset
    /\ vibrateOut' = <<>>
    /\ UNCHANGED <<now, _lastTapMs, tapped, physVars, worldVars, gyroVars, envVars,
                   feedbackVars>>

\* the dblclick listener of the canvas
DblClick ==
    /\ IF ~_isResetting THEN TriggerReset("dblclick") ELSE NoReset
    /\ vibrateOut' = <<>>
    /\ UNCHANGED <<now, _lastTapMs, tapped, physVars, worldVars, gyroVars, envVars,
                   feedbackVars>>

\* the touchend listener of the canvas
TouchEnd ==
    /\ IF now - _lastTapMs < DOUBLE_TAP_MS /\ ~_isResetting
       THEN TriggerReset("tap")
       ELSE NoReset
    /\ _lastTapMs' = now
    /\ tapped' = TRUE
    /\ vibrateOut' = <<>>
    /\ UNCHANGED <<now, physVars, worldVars, gyroVars, envVars, feedbackVars>>

\* time passes; a due timer runs before the clock moves past it
Advance(d) ==
    /\ now + d <= MaxTime
    /\ \A i \in 1..Len(timers) : timers[i].due >= now + d
    /\ now' = now + d
    /\ Quiet
    /\ UNCHANGED <<_lastTapMs, tapped, physVars, resetVars, worldVars, gyroVars, envVars,
                   feedbackVars>>

\* Engine.update with no beforeUpdate hook registered
PhysicsStepNoHook ==
    /\ stepGravity' = gravity
    /\ stepWhileResetting' = _isResetting
    /\ Quiet
    /\ UNCHANGED <<now, gravity, lastWriter, lastEvent, _lastTapMs, tapped, resetVars,
                   worldVars, gyroVars, envVars, feedbackVars>>

\* Engine.update: the beforeUpdate hook of initReset, then the step
PhysicsStep ==
    /\ IF _gravityOverride # <<>>
       THEN /\ gravity' = [x |-> _gravityOverride[1].x, y |-> _gravityOverride[1].y]
            /\ lastWriter' = "override"
       ELSE UNCHANGED <<gravity, lastWriter>>
    /\ stepGravity' = gravity'
    /\ stepWhileResetting' = _isResetting
    /\ Quiet
    /\ UNCHANGED <<now, lastEvent, _lastTapMs, tapped, resetVars, worldVars, gyroVars, envVars,
                   feedbackVars>>

----------------------------------------------------------------------------
(* settings.js: the ball-count slider *)

\* the slider's 'input' listener; the user has moved the slider to v
SliderInput(v) ==
    LET count == ParseInt(ToString(v))
    IN  /\ sliderBalls' = v
        /\ displayBalls' = ToString(count[1])
        /\ Quiet
        /\ UNCHANGED <<now, _lastTapMs, tapped, physVars, resetVars, world, currentWalls,
                       canvas, localStorage, gyroVars, envVars, feedbackVars,
                       lastChange, changeWhileResetting>>
        /\ lastSliderEvent' = "input"

\* the 'change' listener without its localStorage.setItem call
SliderChangeNoStore(v) ==
    LET count == ParseInt(ToString(v))
    IN  /\ sliderBalls' = v
        /\ displayBalls' = ToString(count[1])
        /\ world' = AddBalls(RemoveAllBalls(world), count[1])
        /\ lastChange' = <<v>>
        /\ lastSliderEvent' = "change"
        /\ changeWhileResetting' = _isResetting
        /\ Quiet
        /\ UNCHANGED <<now, _lastTapMs, tapped, physVars, resetVars, currentWalls, canvas,
                       localStorage, gyroVars, envVars, feedbackVars>>

\* the 'change' listener without its physics.removeAllBalls() call
SliderChangeKeepsBalls(v) ==
    LET count == ParseInt(ToString(v))
    IN  /\ sliderBalls' = v
        /\ displayBalls' = ToString(count[1])
        /\ localStorage' = [localStorage EXCEPT !["gyroballs_count"] = <<ToString(count[1])>>]
        /\ world' = AddBalls(world, count[1])
        /\ lastChange' = <<v>>
        /\ lastSliderEvent' = "change"
        /\ changeWhileResetting' = _isResetting
        /\ Quiet
        /\ UNCHANGED <<now, _lastTapMs, tapped, physVars, resetVars, currentWalls, canvas,
                       gyroVars, envVars, feedbackVars>>

\* the slider's 'change' listener; the user has released the slider at v
SliderChange(v) ==
    LET count == ParseInt(ToString(v))
    IN  /\ sliderBalls' = v
        /\ displayBalls' = ToString(count[1])
        /\ localStorage' = [localStorage EXCEPT !["gyroballs_count"] = <<ToString(count[1])>>]
        /\ world' = AddBalls(RemoveAllBalls(world), count[1])
        /\ lastChange' = <<v>>
        /\ lastSliderEvent' = "change"
        /\ changeWhileResetting' = _isResetting
        /\ Quiet
        /\ UNCHANGED <<now, _lastTapMs, tapped, physVars, resetVars, currentWalls, canvas,
                       gyroVars, envVars, feedbackVars>>

----------------------------------------------------------------------------
(* gyroscope.js and mouse.js: permission, listeners, events *)

\* the click handler treating only an explicit 'denied' as a denial
PromptResultOnlyDenied(outcome) ==
    IF outcome \in {"denied", "throws"} THEN "denied" ELSE "granted"

\* what the click handler of _showPermissionPrompt resolves with; outcome is the
\* state requestPermission() resolved to, or "throws"
PromptResult(outcome) ==
    IF outcome = "throws" THEN "denied"
    ELSE IF outcome = "granted" THEN "granted" ELSE "denied"

\* the click listener that leaves the overlay in place until the request settles
ClickEnableKeepsOverlay ==
    /\ gyroPc = "awaitClick"
    /\ gyroPc' = "requesting"
    /\ Quiet
    /\ UNCHANGED <<now, _lastTapMs, tapped, physVars, resetVars, worldVars, envVars,
                   permissionOverlayHidden, orientationListener, nullCount,
                   mouseListeners, onDeniedCalls, permissionState, nullRun,
                   feedbackVars>>

\* the click listener of #btn-enable-motion ({ once: true }), up to its await
ClickEnable ==
    /\ gyroPc = "awaitClick"
    /\ permissionOverlayHidden' = TRUE
    /\ gyroPc' = "requesting"
    /\ Quiet
    /\ UNCHANGED <<now, _lastTapMs, tapped, physVars, resetVars, worldVars, envVars,
                   orientationListener, nullCount, mouseListeners, onDeniedCalls,
                   permissionState, nullRun, feedbackVars>>

\* initGyroscope without the return after onDenied()
PermissionOutcomeNoReturn(outcome) ==
    /\ gyroPc = "requesting"
    /\ gyroPc' = "done"
    /\ permissionState' = outcome
    /\ IF PromptResult(outcome) # "granted"
       THEN /\ onDeniedCalls' = onDeniedCalls + 1
            /\ mouseListeners' = mouseListeners + 1
       ELSE UNCHANGED <<onDeniedCalls, mouseListeners>>
    /\ orientationListener' = TRUE
    /\ nullCount' = 0
    /\ nullRun' = 0
    /\ Quiet
    /\ UNCHANGED <<now, _lastTapMs, tapped, physVars, resetVars, worldVars, envVars,
                   permissionOverlayHidden, feedbackVars>>

\* requestPermission() settles: the rest of the click handler, then the rest
\* of initGyroscope, which awaits its promise
PermissionOutcome(outcome) ==
    /\ gyroPc = "requesting"
    /\ gyroPc' = "done"
    /\ permissionState' = outcome
    /\ IF PromptResult(outcome) # "granted"
       THEN \* onDenied() is main.js's initMouse(physics.engine)
            /\ onDeniedCalls' = onDeniedCalls + 1
            /\ mouseListeners' = mouseListeners + 1
            /\ UNCHANGED <<orientationListener, nullCount, nullRun>>
       ELSE \* _startGravityControl(engine, onDenied)
            /\ orientationListener' = TRUE
            /\ nullCount' = 0
            /\ nullRun' = 0
            /\ UNCHANGED <<onDeniedCalls, mouseListeners>>
    /\ Quiet
    /\ UNCHANGED <<now, _lastTapMs, tapped, physVars, resetVars, worldVars, envVars,
                   permissionOverlayHidden, feedbackVars>>

\* _onDeviceOrientation that never sets nullCount back to 0
DeviceOrientationNoCounterReset(beta, gamma) ==
    /\ orientationListener
    /\ nullRun' = IF beta = <<>> /\ gamma = <<>> THEN nullRun + 1 ELSE 0
    /\ IF beta = <<>> /\ gamma = <<>>
       THEN /\ nullCount' = nullCount + 1
            /\ IF nullCount + 1 >= NO_DATA_THRESHOLD
               THEN /\ orientationListener' = FALSE
                    /\ onDeniedCalls' = onDeniedCalls + 1
                    /\ mouseListeners' = mouseListeners + 1
               ELSE UNCHANGED <<orientationListener, onDeniedCalls, mouseListeners>>
            /\ UNCHANGED <<gravity, lastWriter, lastEvent>>
       ELSE /\ gravity' = TiltToGravity(beta, gamma)
            /\ lastWriter' = "gyro"
            /\ lastEvent' = [kind |-> "gyro", a |-> beta, b |-> gamma,
                             w |-> innerWidth, h |-> innerHeight]
            /\ UNCHANGED <<nullCount, orientationListener, onDeniedCalls, mouseListeners>>
    /\ Quiet
    /\ UNCHANGED <<now, _lastTapMs, tapped, stepGravity, stepWhileResetting, resetVars,
                   worldVars, envVars, gyroPc, permissionOverlayHidden,
                   permissionState, feedbackVars>>

\* _onDeviceOrientation that smooths: it writes the mean of the vector in place
\* and the vector of the event
DeviceOrientationLowPass(beta, gamma) ==
    /\ orientationListener
    /\ nullRun' = IF beta = <<>> /\ gamma = <<>> THEN nullRun + 1 ELSE 0
    /\ IF beta = <<>> /\ gamma = <<>>
       THEN /\ nullCount' = nullCount + 1
            /\ IF nullCount + 1 >= NO_DATA_THRESHOLD
               THEN /\ orientationListener' = FALSE
                    /\ onDeniedCalls' = onDeniedCalls + 1
                    /\ mouseListeners' = mouseListeners + 1
               ELSE UNCHANGED <<orientationListener, onDeniedCalls, mouseListeners>>
            /\ UNCHANGED <<gravity, lastWriter, lastEvent>>
       ELSE /\ nullCount' = 0
            /\ gravity' = [x |-> RDiv(gravity.x + TiltToGravity(beta, gamma).x, 2),
                           y |-> RDiv(gravity.y + TiltToGravity(beta, gamma).y, 2)]
            /\ lastWriter' = "gyro"
            /\ lastEvent' = [kind |-> "gyro", a |-> beta, b |-> gamma,
                             w |-> innerWidth, h |-> innerHeight]
            /\ UNCHANGED <<orientationListener, onDeniedCalls, mouseListeners>>
    /\ Quiet
    /\ UNCHANGED <<now, _lastTapMs, tapped, stepGravity, stepWhileResetting, resetVars,
                   worldVars, envVars, gyroPc, permissionOverlayHidden,
                   permissionState, feedbackVars>>

\* _onDeviceOrientation that counts an event without data and then maps it to
\* gravity like any other, null read as the default of each angle
DeviceOrientationMapsNull(beta, gamma) ==
    /\ orientationListener
    /\ nullRun' = IF beta = <<>> /\ gamma = <<>> THEN nullRun + 1 ELSE 0
    /\ IF beta = <<>> /\ gamma = <<>>
       THEN /\ nullCount' = nullCount + 1
            /\ IF nullCount + 1 >= NO_DATA_THRESHOLD
               THEN /\ orientationListener' = FALSE
                    /\ onDeniedCalls' = onDeniedCalls + 1
                    /\ mouseListeners' = mouseListeners + 1
               ELSE UNCHANGED <<orientationListener, onDeniedCalls, mouseListeners>>
            /\ gravity' = TiltToGravity(beta, gamma)
            /\ UNCHANGED <<lastWriter, lastEvent>>
       ELSE /\ nullCount' = 0
            /\ gravity' = TiltToGravity(beta, gamma)
            /\ lastWriter' = "gyro"
            /\ lastEvent' = [kind |-> "gyro", a |-> beta, b |-> gamma,
                             w |-> innerWidth, h |-> innerHeight]
            /\ UNCHANGED <<orientationListener, onDeniedCalls, mouseListeners>>
    /\ Quiet
    /\ UNCHANGED <<now, _lastTapMs, tapped, stepGravity, stepWhileResetting, resetVars,
                   worldVars, envVars, gyroPc, permissionOverlayHidden,
                   permissionState, feedbackVars>>

\* _onDeviceOrientation(event); beta and gamma are <<>> (null) or <<degrees>>
DeviceOrientation(beta, gamma) ==
    /\ orientationListener
    /\ nullRun' = IF beta = <<>> /\ gamma = <<>> THEN nullRun + 1 ELSE 0
    /\ IF beta = <<>> /\ gamma = <<>>
       THEN /\ nullCount' = nullCount + 1
            /\ IF nullCount + 1 >= NO_DATA_THRESHOLD
               THEN \* removeEventListener, then onNoGyroscope(), which is
                    \* main.js's initMouse(physics.engine)
                    /\ orientationListener' = FALSE
                    /\ onDeniedCalls' = onDeniedCalls + 1
                    /\ mouseListeners' = mouseListeners + 1
               ELSE UNCHANGED <<orientationListener, onDeniedCalls, mouseListeners>>
            /\ UNCHANGED <<gravity, lastWriter, lastEvent>>
       ELSE /\ nullCount' = 0
            /\ gravity' = TiltToGravity(beta, gamma)
            /\ lastWriter' = "gyro"
            /\ lastEvent' = [kind |-> "gyro", a |-> beta, b |-> gamma,
                             w |-> innerWidth, h |-> innerHeight]
            /\ UNCHANGED <<orientationListener, onDeniedCalls, mouseListeners>>
    /\ Quiet
    /\ UNCHANGED <<now, _lastTapMs, tapped, stepGravity, stepWhileResetting, resetVars,
                   worldVars, envVars, gyroPc, permissionOverlayHidden,
                   permissionState, feedbackVars>>

\* _onMouseMove(event); the cursor is at (clientX2, clientY2) half pixels
MouseMove(clientX2, clientY2) ==
    /\ mouseListeners > 0
    /\ gravity' = MouseToGravity(clientX2, clientY2, innerWidth, innerHeight)
    /\ lastWriter' = "mouse"
    /\ lastEvent' = [kind |-> "mouse", a |-> <<clientX2>>, b |-> <<clientY2>>,
                     w |-> innerWidth, h |-> innerHeight]
    /\ Quiet
    /\ UNCHANGED <<now, _lastTapMs, tapped, stepGravity, stepWhileResetting, resetVars,
                   worldVars, gyroVars, envVars, feedbackVars>>

\* the 'resize' listeners that keep the old walls in the world
ResizeKeepsWalls(w, h) ==
    /\ <<w, h>> # <<innerWidth, innerHeight>>
    /\ innerWidth' = w
    /\ innerHeight' = h
    /\ canvas' = [width |-> w, height |-> h]
    /\ currentWalls' = BuildWalls(w, h)
    /\ world' = CompositeAdd(world, BuildWalls(w, h))
    /\ Quiet
    /\ UNCHANGED <<now, _lastTapMs, tapped, physVars, resetVars, localStorage, sliderBalls,
                   displayBalls, lastChange, lastSliderEvent,
                   changeWhileResetting, gyroVars, deviceMotion,
                   permissionRequired, feedbackVars>>

\* the window is resized to w by h pixels: the 'resize' listeners of physics.js
\* (_onResize) and of walls.js (_refresh)
Resize(w, h) ==
    /\ <<w, h>> # <<innerWidth, innerHeight>>
    /\ innerWidth' = w
    /\ innerHeight' = h
    /\ canvas' = [width |-> w, height |-> h]
    /\ currentWalls' = BuildWalls(w, h)
    /\ world' = CompositeAdd(CompositeRemove(world, currentWalls), BuildWalls(w, h))
    /\ Quiet
    /\ UNCHANGED <<now, _lastTapMs, tapped, physVars, resetVars, localStorage, sliderBalls,
                   displayBalls, lastChange, lastSliderEvent,
                   changeWhileResetting, gyroVars, deviceMotion,
                   permissionRequired, feedbackVars>>

----------------------------------------------------------------------------
(* sound.js, vibration.js and settings.js: collisions, toggles, the panel *)

\* the ids of the bodies that collide
BodyIds == {1, 2, 3, 4, 5, 7, 8, 9}

\* the pairs of body ids, whichever body is A or B
PairSets == {{a, b} : a \in BodyIds, b \in BodyIds}

\* the times of the last feedback by pair, after the feedback `out` given now
Stamp(at, out) ==
    [k \in PairSets |->
        IF \E i \in 1..Len(out) : {out[i].ids[n] : n \in 1..Len(out[i].ids)} = k
        THEN <<now>> ELSE at[k]]

\* Matter's 'collisionStart' event with these pairs: the listener of initSound,
\* then the listener of initVibration, attached when navigator.vibrate is there
Collision(pairs) ==
    LET s == SoundOnCollision(pairs)
        v == IF vibration_supported /\ ~s.threw
             THEN VibrationOnCollision(pairs)
             ELSE [cooldowns |-> vibration_cooldowns, out |-> <<>>, threw |-> FALSE]
    IN  /\ sound_cooldowns' = s.cooldowns
        /\ sound_ctx' = s.created
        /\ soundOut' = s.out
        /\ vibration_cooldowns' = v.cooldowns
        /\ vibrateOut' = v.out
        /\ uncaught' = (s.threw \/ v.threw)
        /\ soundAt' = Stamp(soundAt, s.out)
        /\ vibrateAt' = Stamp(vibrateAt, v.out)
        /\ UNCHANGED <<now, _lastTapMs, tapped, physVars, resetVars, worldVars, gyroVars,
                       envVars, audio, vibrate, sound_enabled, vibration_enabled,
                       vibration_supported, checkSound, checkVibration, panelHidden,
                       ariaExpanded, lastSetSound, lastSetVibration, lastClick,
                       clicks, setSinceLoad, speedCall>>

\* a call of _speedToVolume(speed) and of _speedToDuration(speed), the speed in
\* 1/Scale px per tick
SpeedMapped(speed) ==
    /\ speedCall' = <<[speed |-> speed, volume |-> SpeedToVolume(speed),
                       duration |-> SpeedToDuration(speed)]>>
    /\ Quiet
    /\ UNCHANGED <<now, _lastTapMs, tapped, physVars, resetVars, worldVars, gyroVars,
                   envVars, audio, vibrate, sound_enabled, sound_cooldowns,
                   vibration_enabled, vibration_supported, vibration_cooldowns,
                   soundAt, vibrateAt, checkSound, checkVibration, panelHidden,
                   ariaExpanded, lastSetSound, lastSetVibration, lastClick,
                   clicks, setSinceLoad>>

\* setSoundEnabled that stores the flag and leaves _enabled alone
SetSoundEnabledStoreOnly(on) ==
    /\ UNCHANGED sound_enabled
    /\ localStorage' = [localStorage EXCEPT
                           !["gyroballs_sound"] = <<FlagString(ToBoolean(on))>>]
    /\ lastSetSound' = <<on>>
    /\ setSinceLoad' = TRUE

\* sound.js setSoundEnabled(on); on is a JavaScript value
SetSoundEnabled(on) ==
    /\ sound_enabled' = ToBoolean(on)
    /\ localStorage' = [localStorage EXCEPT
                           !["gyroballs_sound"] = <<FlagString(ToBoolean(on))>>]
    /\ lastSetSound' = <<on>>
    /\ setSinceLoad' = TRUE

\* setVibrationEnabled that stores the flag and leaves _enabled alone
SetVibrationEnabledStoreOnly(on) ==
    /\ UNCHANGED vibration_enabled
    /\ localStorage' = [localStorage EXCEPT
                           !["gyroballs_vibration"] = <<FlagString(ToBoolean(on))>>]
    /\ lastSetVibration' = <<on>>
    /\ setSinceLoad' = TRUE

\* vibration.js setVibrationEnabled(on)
SetVibrationEnabled(on) ==
    /\ vibration_enabled' = ToBoolean(on)
    /\ localStorage' = [localStorage EXCEPT
                           !["gyroballs_vibration"] = <<FlagString(ToBoolean(on))>>]
    /\ lastSetVibration' = <<on>>
    /\ setSinceLoad' = TRUE

\* the 'change' listener of #toggle-sound; the user has flipped the checkbox
SoundToggleChange ==
    /\ checkSound' = ~checkSound
    /\ SetSoundEnabled(JsBool(checkSound'))
    /\ Quiet
    /\ UNCHANGED <<now, _lastTapMs, tapped, physVars, resetVars, world, currentWalls, canvas,
                   sliderBalls, displayBalls, lastChange, lastSliderEvent,
                   changeWhileResetting, gyroVars, envVars,
                   audio,
                   vibrate, sound_cooldowns, vibration_enabled, vibration_supported,
                   vibration_cooldowns, soundAt, vibrateAt, speedCall,
                   checkVibration, panelHidden, ariaExpanded,
                   lastSetVibration, lastClick, clicks>>

\* the 'change' listener of #toggle-vibration
VibrationToggleChange ==
    /\ checkVibration' = ~checkVibration
    /\ SetVibrationEnabled(JsBool(checkVibration'))
    /\ Quiet
    /\ UNCHANGED <<now, _lastTapMs, tapped, physVars, resetVars, world, currentWalls, canvas,
                   sliderBalls, displayBalls, lastChange, lastSliderEvent,
                   changeWhileResetting, gyroVars, envVars,
                   audio,
                   vibrate, sound_enabled, sound_cooldowns, vibration_supported,
                   vibration_cooldowns, soundAt, vibrateAt, speedCall,
                   checkSound, panelHidden, ariaExpanded,
                   lastSetSound, lastClick, clicks>>

\* a call of the exported setSoundEnabled(on) with any value
SetSoundEnabledCall(on) ==
    /\ SetSoundEnabled(on)
    /\ Quiet
    /\ UNCHANGED <<now, _lastTapMs, tapped, physVars, resetVars, world, currentWalls, canvas,
                   sliderBalls, displayBalls, lastChange, lastSliderEvent,
                   changeWhileResetting, gyroVars, envVars,
                   audio,
                   vibrate, sound_cooldowns, vibration_enabled, vibration_supported,
                   vibration_cooldowns, soundAt, vibrateAt, speedCall,
                   checkSound, checkVibration, panelHidden,
                   ariaExpanded, lastSetVibration, lastClick, clicks>>

\* a call of the exported setVibrationEnabled(on) with any value
SetVibrationEnabledCall(on) ==
    /\ SetVibrationEnabled(on)
    /\ Quiet
    /\ UNCHANGED <<now, _lastTapMs, tapped, physVars, resetVars, world, currentWalls, canvas,
                   sliderBalls, displayBalls, lastChange, lastSliderEvent,
                   changeWhileResetting, gyroVars, envVars,
                   audio,
                   vibrate, sound_enabled, sound_cooldowns, vibration_supported,
                   vibration_cooldowns, soundAt, vibrateAt, speedCall,
                   checkSound, checkVibration, panelHidden,
                   ariaExpanded, lastSetSound, lastClick, clicks>>

\* settings.js _openPanel, _closePanel and _togglePanel
OpenPanel ==
    /\ panelHidden' = FALSE
    /\ ariaExpanded' = <<"true">>

ClosePanel ==
    /\ panelHidden' = TRUE
    /\ ariaExpanded' = <<"false">>

TogglePanel == IF panelHidden THEN OpenPanel ELSE ClosePanel

\* what a click leaves alone, the panel apart
ClickFrame ==
    /\ Quiet
    /\ UNCHANGED <<now, _lastTapMs, tapped, physVars, resetVars, worldVars, gyroVars, envVars,
                   audio, vibrate, sound_enabled, sound_cooldowns, vibration_enabled,
                   vibration_supported, vibration_cooldowns, soundAt, vibrateAt, speedCall,
                   checkSound,
                   checkVibration, lastSetSound, lastSetVibration, setSinceLoad>>

\* a click on the icon inside the gear whose event goes on to the listener of
\* the document, which closes the panel the gear's listener has just opened
GearClickPropagates ==
    /\ clicks < MaxClicks
    /\ clicks' = clicks + 1
    /\ lastClick' = "gear"
    /\ ClosePanel
    /\ ClickFrame

\* a click on #btn-settings: its listener stops the propagation, so the
\* listener of the document does not run
GearClick ==
    /\ clicks < MaxClicks
    /\ clicks' = clicks + 1
    /\ lastClick' = "gear"
    /\ TogglePanel
    /\ ClickFrame

\* a click elsewhere, inside the panel (target = "panel"), which takes a panel
\* that is shown, or outside it and the gear (target = "outside"): the 'click'
\* listener of the document
DocumentClick(target) ==
    /\ target = "panel" => ~panelHidden
    /\ clicks < MaxClicks
    /\ clicks' = clicks + 1
    /\ lastClick' = target
    /\ IF ~panelHidden /\ target # "panel" /\ target # "gear"
       THEN ClosePanel
       ELSE UNCHANGED <<panelHidden, ariaExpanded>>
    /\ ClickFrame

----------------------------------------------------------------------------
(* The inputs drawn *)

\* beta in -180..180 and gamma in -90..90 by 30 degrees, or null
Betas == {<<>>} \cup {<<30 * k - 180>> : k \in 0..12} \cup {<<-45>>, <<45>>}
Gammas == {<<>>} \cup {<<30 * k - 90>> : k \in 0..6} \cup {<<-45>>, <<45>>}
FewBetas == {<<>>, <<90>>}
FewGammas == {<<>>, <<90>>}

Viewports == {<<2, 2>>, <<4, 3>>, <<800, 600>>}
\* cursor coordinates in half pixels for a viewport side of n pixels: outside,
\* the edges, near an edge, the centre
CursorCoords(n) == {-2, 0, 6, n, 2 * n, 2 * n + 2}

\* e.accelerationIncludingGravity: null, at rest, exactly at the threshold,
\* shakes with and without null components
Accels == {<<>>,
           <<[x |-> <<0>>, y |-> <<10>>, z |-> <<0>>]>>,
           <<[x |-> <<22>>, y |-> <<0>>, z |-> <<0>>]>>,
           <<[x |-> <<20>>, y |-> <<10>>, z |-> <<0>>]>>,
           <<[x |-> <<>>, y |-> <<23>>, z |-> <<>>]>>}

PermissionOutcomes == {"granted", "denied", "default", "throws"}

SliderValues == {1, 30}

Chars == {"0", "1", "7", "9", "-", " ", "x", "."}

RECURSIVE StringsUpTo(_)
StringsUpTo(n) ==
    IF n = 0 THEN {<<>>}
    ELSE LET shorter == StringsUpTo(n - 1)
         IN  shorter \cup {Append(t, c) : t \in shorter, c \in Chars}

\* what localStorage may hold under 'gyroballs_count' when the page loads
AnyStored == {<<>>} \cup {<<t>> : t \in StringsUpTo(MaxStrLen)}
FewStored == {<<>>, <<<<"7">>>>, <<<<"9", "9">>>>}

\* the bodies that collide: a ball at speed 5, a ball at rest, a ball at speed
\* 0.5, a wall, and a body that is neither ball nor wall
FastBall == [id |-> 1, label |-> "ball", vx |-> 3 * Scale, vy |-> 4 * Scale]
StillBall == [id |-> 2, label |-> "ball", vx |-> 0, vy |-> 0]
SlowBall == [id |-> 3, label |-> "ball", vx |-> Scale \div 2, vy |-> 0]
TopWall == [id |-> 7, label |-> "wall-top", vx |-> 0, vy |-> 0]
OtherBody == [id |-> 9, label |-> "Body", vx |-> 0, vy |-> 0]

BallBallPair == [bodyA |-> FastBall, bodyB |-> StillBall]
WallBallPair == [bodyA |-> TopWall, bodyB |-> FastBall]
SlowPair == [bodyA |-> SlowBall, bodyB |-> TopWall]
OtherPair == [bodyA |-> FastBall, bodyB |-> OtherBody]

\* further bodies: ball 1 when it is slow, a ball moving along with FastBall, a
\* ball at exactly MIN_SPEED, a second wall
SlowOne == [id |-> 1, label |-> "ball", vx |-> 0, vy |-> Scale \div 2]
CoBall == [id |-> 4, label |-> "ball", vx |-> 3 * Scale, vy |-> 4 * Scale]
UnitBall == [id |-> 5, label |-> "ball", vx |-> Scale, vy |-> 0]
LeftWall == [id |-> 8, label |-> "wall-left", vx |-> 0, vy |-> 0]

\* the pairs tried one by one, each with its bodies either way round
PairsTried ==
    LET both(a, b) == {[bodyA |-> a, bodyB |-> b], [bodyA |-> b, bodyB |-> a]}
    IN  both(FastBall, StillBall) \cup both(SlowOne, StillBall)
            \cup both(FastBall, CoBall) \cup both(SlowBall, StillBall)
            \cup both(TopWall, FastBall) \cup both(TopWall, SlowOne)
            \cup both(UnitBall, LeftWall) \cup both(TopWall, LeftWall)
            \cup both(FastBall, OtherBody) \cup both(OtherBody, TopWall)

\* the ball-ball pair with the bodies the other way round
SwappedPair == [bodyA |-> StillBall, bodyB |-> FastBall]

\* event.pairs: two pairs that are fast enough, or two that give no feedback
CollisionEvents == {<<BallBallPair, WallBallPair>>, <<SlowPair, OtherPair>>}

\* the browsers: Web Audio and navigator.vibrate at hand, missing or throwing
Browsers == {<<"ok", "ok">>, <<"missing", "ok">>, <<"throws", "ok">>,
             <<"ok", "missing">>, <<"ok", "throws">>, <<"missing", "missing">>,
             <<"throws", "throws">>}

\* what localStorage may hold under 'gyroballs_sound' and 'gyroballs_vibration'
\* when the page loads: nothing, what the setters write, or something else
StoredFlags == {<<>>, <<<<"0">>>>, <<<<"1">>>>, <<<<>>>>, <<<<"0", "0">>>>}

NothingStored == [gyroballs_count |-> <<>>, gyroballs_sound |-> <<>>,
                  gyroballs_vibration |-> <<>>]

----------------------------------------------------------------------------
(* The state after the modules have loaded and main.js has run: initPhysics,
   initWalls, initSound, initVibration, initSettings, initReset and the
   synchronous part of initGyroscope.  The panel starts hidden, with
   aria-expanded "false". *)

JsValues == {JsBool(TRUE), JsBool(FALSE),
             [t |-> "number", v |-> "0"], [t |-> "number", v |-> "1"],
             [t |-> "string", v |-> ""], [t |-> "string", v |-> "0"],
             [t |-> "undefined", v |-> ""]}

PairKeys == {PairKey(a, b) : a \in BodyIds, b \in BodyIds}

\* what the page holds once it has loaded with this storage in this browser
StartState(store, perm, w, h) ==
    [now |-> 0,
     gravity |-> [x |-> 0, y |-> Scale],
     stepGravity |-> [x |-> 0, y |-> Scale],
     lastEvent |-> [kind |-> "none", a |-> <<>>, b |-> <<>>, w |-> w, h |-> h],
     _lastShakeMs |-> -SHAKE_COOLDOWN_MS,
     world |-> CompositeAdd(AddBalls(<<>>, physics_storedBallCount(store)),
                            BuildWalls(w, h)),
     currentWalls |-> BuildWalls(w, h),
     canvas |-> [width |-> w, height |-> h],
     sliderBalls |-> settings_storedCount(store),
     displayBalls |-> ToString(settings_storedCount(store)),
     gyroPc |-> IF perm THEN "awaitClick" ELSE "done",
     permissionOverlayHidden |-> ~perm,
     orientationListener |-> ~perm,
     sound_enabled |-> ReadEnabled(store, "gyroballs_sound"),
     vibration_enabled |-> ReadEnabled(store, "gyroballs_vibration"),
     checkSound |-> ReadEnabled(store, "gyroballs_sound"),
     checkVibration |-> ReadEnabled(store, "gyroballs_vibration"),
     cooldowns |-> [k \in PairKeys |-> <<>>]]

InitFull(store, perm, w, h, dm, aud, vib) ==
    LET st == StartState(store, perm, w, h)
    IN  /\ now = st.now
        /\ innerWidth = w
        /\ innerHeight = h
        /\ gravity = st.gravity
        /\ stepGravity = st.stepGravity
        /\ stepWhileResetting = FALSE
        /\ lastWriter = "initPhysics"
        /\ lastEvent = st.lastEvent
        /\ _isResetting = FALSE
        /\ _lastShakeMs = st._lastShakeMs
        /\ _gravityOverride = <<>>
        /\ _lastTapMs = 0
        /\ tapped = FALSE
        /\ timers = <<>>
        /\ overlayHidden = TRUE
        /\ numberEl = 0
        /\ shown = <<>>
        /\ beepCalls = <<>>
        /\ trigger = "none"
        /\ resets = 0
        /\ deviceMotion = dm
        /\ localStorage = store
        /\ world = st.world
        /\ currentWalls = st.currentWalls
        /\ canvas = st.canvas
        /\ sliderBalls = st.sliderBalls
        /\ displayBalls = st.displayBalls
        /\ permissionRequired = perm
        /\ gyroPc = st.gyroPc
        /\ permissionOverlayHidden = st.permissionOverlayHidden
        /\ orientationListener = st.orientationListener
        /\ nullCount = 0
        /\ mouseListeners = 0
        /\ onDeniedCalls = 0
        /\ permissionState = "unasked"
        /\ nullRun = 0
        /\ audio = aud
        /\ vibrate = vib
        /\ sound_enabled = st.sound_enabled
        /\ sound_ctx = FALSE
        /\ sound_cooldowns = st.cooldowns
        /\ vibration_enabled = st.vibration_enabled
        /\ vibration_supported = (vib # "missing")
        /\ vibration_cooldowns = st.cooldowns
        /\ soundAt = [k \in PairSets |-> <<>>]
        /\ vibrateAt = [k \in PairSets |-> <<>>]
        /\ speedCall = <<>>
        /\ checkSound = st.checkSound
        /\ checkVibration = st.checkVibration
        /\ panelHidden = TRUE
        /\ ariaExpanded = <<"false">>
        /\ soundOut = <<>>
        /\ vibrateOut = <<>>
        /\ uncaught = FALSE
        /\ lastSetSound = <<>>
        /\ lastSetVibration = <<>>
        /\ lastClick = "none"
        /\ clicks = 0
        /\ lastChange = <<>>
        /\ setSinceLoad = FALSE
        /\ lastSliderEvent = "none"
        /\ changeWhileResetting = FALSE

\* the page with nothing stored for the two flags, audio and vibration at hand
InitWith(stored, perm, w, h, dm) ==
    InitFull([gyroballs_count |-> stored, gyroballs_sound |-> <<>>,
              gyroballs_vibration |-> <<>>], perm, w, h, dm, "ok", "ok")

\* the page is loaded again: storage and the browser stay, the modules start
\* anew; what the user did last (lastSet..., lastChange) is kept on record
Reload ==
    LET st == StartState(localStorage, permissionRequired, innerWidth, innerHeight)
    IN  /\ now' = st.now
        /\ gravity' = st.gravity
        /\ stepGravity' = st.stepGravity
        /\ stepWhileResetting' = FALSE
        /\ lastWriter' = "initPhysics"
        /\ lastEvent' = st.lastEvent
        /\ _isResetting' = FALSE
        /\ _lastShakeMs' = st._lastShakeMs
        /\ _gravityOverride' = <<>>
        /\ _lastTapMs' = 0
        /\ tapped' = FALSE
        /\ timers' = <<>>
        /\ overlayHidden' = TRUE
        /\ numberEl' = 0
        /\ shown' = <<>>
        /\ beepCalls' = <<>>
        /\ trigger' = "none"
        /\ resets' = 0
        /\ world' = st.world
        /\ currentWalls' = st.currentWalls
        /\ canvas' = st.canvas
        /\ sliderBalls' = st.sliderBalls
        /\ displayBalls' = st.displayBalls
        /\ gyroPc' = st.gyroPc
        /\ permissionOverlayHidden' = st.permissionOverlayHidden
        /\ orientationListener' = st.orientationListener
        /\ nullCount' = 0
        /\ mouseListeners' = 0
        /\ onDeniedCalls' = 0
        /\ permissionState' = "unasked"
        /\ nullRun' = 0
        /\ sound_enabled' = st.sound_enabled
        /\ sound_ctx' = FALSE
        /\ sound_cooldowns' = st.cooldowns
        /\ vibration_enabled' = st.vibration_enabled
        /\ vibration_supported' = (vibrate # "missing")
        /\ vibration_cooldowns' = st.cooldowns
        /\ soundAt' = [k \in PairSets |-> <<>>]
        /\ vibrateAt' = [k \in PairSets |-> <<>>]
        /\ speedCall' = <<>>
        /\ checkSound' = st.checkSound
        /\ checkVibration' = st.checkVibration
        /\ panelHidden' = TRUE
        /\ ariaExpanded' = <<"false">>
        /\ soundOut' = <<>>
        /\ vibrateOut' = <<>>
        /\ uncaught' = FALSE
        /\ lastClick' = "none"
        /\ clicks' = 0
        /\ setSinceLoad' = FALSE
        /\ lastSliderEvent' = "none"
        /\ changeWhileResetting' = FALSE
        /\ UNCHANGED <<localStorage, envVars, audio, vibrate, lastSetSound,
                       lastSetVibration, lastChange>>

----------------------------------------------------------------------------
(* Spec: the reset state machine, the clock, the ball world and the slider *)

Init == \E stored \in FewStored : InitWith(stored, FALSE, 4, 3, TRUE)

Next ==
    \/ \E d \in {250, 500} : Advance(d)
    \/ \E i \in 1..Len(timers) : TimerFire(i)
    \/ \E acc \in Accels : DeviceMotion(acc)
    \/ DblClick
    \/ TouchEnd
    \/ \E v \in SliderValues : SliderInput(v)
    \/ \E v \in SliderValues : SliderChange(v)

Spec == Init /\ [][Next]_vars

(* SpecGravity: the input sources, the permission prompt, the physics step
   and the countdown *)

InitGravity == \E perm \in BOOLEAN : InitWith(<<>>, perm, 800, 600, TRUE)

NextGravity ==
    \/ \E d \in {1000} : Advance(d)
    \/ \E i \in 1..Len(timers) : TimerFire(i)
    \/ DeviceMotion(<<[x |-> <<20>>, y |-> <<10>>, z |-> <<0>>]>>)
    \/ DblClick
    \/ PhysicsStep
    \/ ClickEnable
    \/ \E outcome \in PermissionOutcomes : PermissionOutcome(outcome)
    \/ \E beta \in FewBetas, gamma \in FewGammas : DeviceOrientation(beta, gamma)
    \/ \E x \in {0, 800}, y \in {6, 600} : MouseMove(x, y)

SpecGravity == InitGravity /\ [][NextGravity]_vars

(* SpecInput: every tilt and every cursor position, on every viewport *)

InitInput == \E v \in Viewports : InitWith(<<>>, FALSE, v[1], v[2], TRUE)

NextInput ==
    \/ \E beta \in Betas, gamma \in Gammas : DeviceOrientation(beta, gamma)
    \/ \E x \in CursorCoords(innerWidth), y \in CursorCoords(innerHeight) : MouseMove(x, y)

SpecInput == InitInput /\ [][NextInput]_vars

(* SpecCount: every stored ball count, read at startup and at a reset *)

InitCount == \E stored \in AnyStored : InitWith(stored, FALSE, 4, 3, TRUE)

NextCount ==
    \/ \E d \in {1000} : Advance(d)
    \/ \E i \in 1..Len(timers) : TimerFire(i)
    \/ DblClick

SpecCount == InitCount /\ [][NextCount]_vars

(* SpecFeedback: collisions and countdowns with the two toggles, in every
   browser *)

InitFeedback ==
    \E br \in Browsers : InitFull(NothingStored, FALSE, 4, 3, TRUE, br[1], br[2])

NextFeedback ==
    \/ now < FeedbackHorizon /\ \E d \in {1000} : Advance(d)
    \/ \E i \in 1..Len(timers) : TimerFire(i)
    \/ DblClick
    \/ \E pairs \in CollisionEvents : Collision(pairs)
    \/ SoundToggleChange
    \/ VibrationToggleChange

SpecFeedback == InitFeedback /\ [][NextFeedback]_vars

(* SpecThrottle: collisions of the same and of different pairs 40 ms apart *)

ThrottleEvents == {<<BallBallPair, WallBallPair>>, <<SwappedPair>>, <<WallBallPair>>}

InitThrottle ==
    \E br \in {<<"ok", "ok">>, <<"ok", "throws">>} :
        InitFull(NothingStored, FALSE, 4, 3, TRUE, br[1], br[2])

NextThrottle ==
    \/ now < ThrottleHorizon /\ \E d \in {40} : Advance(d)
    \/ \E pairs \in ThrottleEvents : Collision(pairs)
    \/ SoundToggleChange
    \/ VibrationToggleChange

SpecThrottle == InitThrottle /\ [][NextThrottle]_vars

(* SpecPairs: pairs of every kind and speed, one collision at a time *)

InitPairs ==
    \E br \in {<<"ok", "ok">>} : InitFull(NothingStored, FALSE, 4, 3, TRUE, br[1], br[2])

NextPairs ==
    \/ now < ThrottleHorizon /\ \E d \in {40} : Advance(d)
    \/ \E pair \in PairsTried : Collision(<<pair>>)

SpecPairs == InitPairs /\ [][NextPairs]_vars

(* SpecSpeeds: the speed mappings on speeds from 0 to MaxSpeed px per tick, a
   quarter apart *)

Speeds == {(k * Scale) \div 4 : k \in 0..(4 * MaxSpeed)}

InitSpeeds == InitFull(NothingStored, FALSE, 4, 3, TRUE, "ok", "ok")

NextSpeeds == \E speed \in Speeds : SpeedMapped(speed)

SpecSpeeds == InitSpeeds /\ [][NextSpeeds]_vars

(* SpecFlags: the two flags set, stored and loaded again *)

InitFlags ==
    \E snd \in StoredFlags, vib \in StoredFlags :
        InitFull([gyroballs_count |-> <<>>, gyroballs_sound |-> snd,
                  gyroballs_vibration |-> vib], FALSE, 4, 3, TRUE, "ok", "ok")

NextFlags ==
    \/ SoundToggleChange
    \/ VibrationToggleChange
    \/ \E on \in JsValues : SetSoundEnabledCall(on)
    \/ \E on \in JsValues : SetVibrationEnabledCall(on)
    \/ Reload

SpecFlags == InitFlags /\ [][NextFlags]_vars

(* SpecToggles: the two checkboxes of the panel flipped by the user, from every
   stored pair of flags, with the panel opened and closed and the page loaded
   again *)

InitToggles == InitFlags

NextToggles ==
    \/ SoundToggleChange
    \/ VibrationToggleChange
    \/ GearClick
    \/ \E target \in {"panel", "outside"} : DocumentClick(target)
    \/ Reload

SpecToggles == InitToggles /\ [][NextToggles]_vars

(* SpecSettings: the slider, resets and page loads *)

InitSettings == \E stored \in FewStored : InitWith(stored, FALSE, 4, 3, TRUE)

NextSettings ==
    \/ \E d \in {1000} : Advance(d)
    \/ \E i \in 1..Len(timers) : TimerFire(i)
    \/ DblClick
    \/ \E v \in SliderValues : SliderInput(v)
    \/ \E v \in 1..30 : SliderChange(v)
    \/ Reload

SpecSettings == InitSettings /\ [][NextSettings]_vars

(* SpecLive: the countdown where time passes and the interval timer keeps
   firing; a countdown starts only while its three ticks fit below MaxTime *)

InitLive == \E br \in {<<"ok", "ok">>, <<"throws", "ok">>} :
    InitFull(NothingStored, FALSE, 4, 3, TRUE, br[1], br[2])

Tick == \E i \in 1..Len(timers) : TimerFire(i)

TimePasses == \E d \in {500} : Advance(d)

NextLive ==
    \/ TimePasses
    \/ Tick
    \/ (now + 3 * COUNTDOWN_INTERVAL_MS <= MaxTime \/ _isResetting)
           /\ (\/ DblClick
               \/ TouchEnd
               \/ DeviceMotion(<<[x |-> <<20>>, y |-> <<10>>, z |-> <<0>>]>>))
    \/ PhysicsStep
    \/ \E v \in SliderValues : SliderChange(v)

SpecLive == InitLive /\ [][NextLive]_vars /\ WF_vars(TimePasses) /\ WF_vars(Tick)

(* SpecSensors: tilts and cursor positions after different histories of
   events, resizes and resets *)

InitSensors == InitWith(<<>>, FALSE, 4, 3, TRUE)

NextSensors ==
    \/ \E d \in {1000} : Advance(d)
    \/ \E i \in 1..Len(timers) : TimerFire(i)
    \/ DblClick
    \/ PhysicsStep
    \/ \E beta \in FewBetas, gamma \in FewGammas : DeviceOrientation(beta, gamma)
    \/ \E x \in {0, 2 * innerWidth}, y \in {6} : MouseMove(x, y)
    \/ \E v \in {<<2, 2>>, <<4, 3>>} : Resize(v[1], v[2])

SpecSensors == InitSensors /\ [][NextSensors]_vars

(* SpecWalls: resizes, ball-count changes, resets and page loads *)

InitWalls == \E stored \in FewStored : InitWith(stored, FALSE, 4, 3, TRUE)

NextWalls ==
    \/ \E d \in {1000} : Advance(d)
    \/ \E i \in 1..Len(timers) : TimerFire(i)
    \/ DblClick
    \/ \E v \in SliderValues : SliderChange(v)
    \/ \E v \in Viewports : Resize(v[1], v[2])
    \/ Reload

SpecWalls == InitWalls /\ [][NextWalls]_vars

(* SpecPanel: clicks on the gear, in the panel and outside it *)

InitPanel == \E stored \in FewStored : InitWith(stored, FALSE, 4, 3, TRUE)

NextPanel ==
    \/ GearClick
    \/ \E target \in {"panel", "outside"} : DocumentClick(target)
    \/ \E v \in SliderValues : SliderInput(v)
    \/ SoundToggleChange
    \/ VibrationToggleChange
    \/ Reload

SpecPanel == InitPanel /\ [][NextPanel]_vars

----------------------------------------------------------------------------
(* The claims *)

\* C1 (Spec): while a countdown is in progress no devicemotion, dblclick or
\* touchend event starts a second one: there is never more than one interval
\* timer, and while _isResetting holds no step starts a countdown, moves the
\* timestamp of the trigger or raises the number displayed.
C1_NoRetrigger ==
    [][/\ Len(timers') <= 1
       /\ _isResetting => /\ resets' = resets
                          /\ _lastShakeMs' = _lastShakeMs
                          /\ numberEl' <= numberEl
                          /\ Len(shown') >= Len(shown)]_vars

\* a touchend has arrived during the countdown, which goes on with its one timer
C1_Witness ==
    /\ _isResetting
    /\ _lastTapMs > _lastShakeMs
    /\ Len(timers) = 1
    /\ numberEl < 3

\* C2 (SpecInput): for every beta in -180..180 and gamma in -90..90, at most one
\* of them null, the vector the deviceorientation handler writes has a
\* magnitude of at most MAX_GRAVITY.
C2_TiltWithinMax ==
    lastWriter = "gyro" => MagSq(gravity) <= MAX_GRAVITY * MAX_GRAVITY

\* the steepest tilt, beta = 90 and gamma = -90, has written (-2, 1)
C2_Witness ==
    /\ lastWriter = "gyro"
    /\ lastEvent.a = <<90>>
    /\ lastEvent.b = <<-90>>
    /\ gravity = [x |-> -2 * Scale, y |-> Scale]

\* C3 (SpecInput): on every viewport, a mousemove at the centre of the screen
\* (clientX = innerWidth / 2, clientY = innerHeight / 2) sets engine.gravity to
\* exactly (0, 0).
C3_CentreIsZero ==
    (/\ lastWriter = "mouse"
     /\ lastEvent.a = <<lastEvent.w>>
     /\ lastEvent.b = <<lastEvent.h>>) => gravity = Zero

\* the cursor at the centre of the 4 by 3 viewport, at (2, 1.5) pixels
C3_Witness ==
    /\ lastWriter = "mouse"
    /\ lastEvent.w = 4
    /\ lastEvent.h = 3
    /\ lastEvent.a = <<4>>
    /\ lastEvent.b = <<3>>
    /\ gravity = Zero

\* the strings that are written numbers: white space around an optional sign
\* and a decimal numeral, as Number() reads them
AllDigits(s) == \A i \in 1..Len(s) : IsDigit(s[i])

RECURSIVE TrimRight(_)
TrimRight(s) ==
    IF s # <<>> /\ IsSpace(s[Len(s)]) THEN TrimRight(SubSeq(s, 1, Len(s) - 1)) ELSE s

IsNumberString(s) ==
    LET t == TrimRight(SkipSpace(s))
        b == IF t # <<>> /\ Head(t) \in {"-", "+"} THEN Tail(t) ELSE t
    IN  \E k \in 0..Len(b) :
            LET int  == SubSeq(b, 1, k)
                rest == SubSeq(b, k + 1, Len(b))
            IN  /\ AllDigits(int)
                /\ \/ rest = <<>> /\ k > 0
                   \/ /\ rest # <<>>
                      /\ Head(rest) = "."
                      /\ AllDigits(Tail(rest))
                      /\ k + Len(rest) > 1

\* C4 (SpecCount): whatever 'gyroballs_count' holds, the count read at startup
\* and at a reset (the balls in the world) and the count given to the slider
\* are in 1..30, and they are the default 10 when nothing is stored or what is
\* stored is not a number.
C4_ClampedOrDefault ==
    LET stored == localStorage.gyroballs_count
    IN  /\ worldBalls \in 1..30
        /\ sliderBalls \in 1..30
        /\ (stored = <<>> \/ ~IsNumberString(stored[1]))
               => (worldBalls = DEFAULT_BALL_COUNT /\ sliderBalls = DEFAULT_BALL_COUNT)

\* C5 (Spec): a countdown shows 3, 2, 1, its timer ticking 1000, 2000 and 3000
\* ms after the trigger; the third tick clears the timer, hides the overlay,
\* replaces the balls by the stored count of new ones, clears the gravity
\* override and returns to idle, where no timer is left to tick.
CountdownShape ==
    IF _isResetting
    THEN /\ Len(timers) = 1
         /\ Len(shown) \in 1..3
         /\ shown = SubSeq(<<3, 2, 1>>, 1, Len(shown))
         /\ numberEl = shown[Len(shown)]
         /\ timers[1].count = numberEl
         /\ timers[1].due = _lastShakeMs + COUNTDOWN_INTERVAL_MS * Len(shown)
         /\ _gravityOverride = <<Zero>>
         /\ ~overlayHidden
    ELSE /\ timers = <<>>
         /\ _gravityOverride = <<>>
         /\ overlayHidden
         /\ resets > 0 => shown = <<3, 2, 1>>

C5_ThreeTicks ==
    [][/\ CountdownShape'
       /\ (_isResetting /\ (shown' # shown \/ ~_isResetting'))
              => now = _lastShakeMs + COUNTDOWN_INTERVAL_MS * Len(shown)
       /\ (_isResetting /\ ~_isResetting')
              => /\ shown = <<3, 2, 1>>
                 /\ worldBalls' = reset_storedBallCount(localStorage)]_vars

\* a countdown has run to its end and time has passed since, with no tick left
C5_Witness ==
    /\ resets = 1
    /\ ~_isResetting
    /\ shown = <<3, 2, 1>>
    /\ timers = <<>>
    /\ now > _lastShakeMs + 3 * COUNTDOWN_INTERVAL_MS

\* C6 (SpecGravity): every physics step taken while a countdown is in progress
\* runs with gravity (0, 0), whatever deviceorientation and mousemove events
\* wrote to engine.gravity between the steps.
C6_FrozenAtEveryStep ==
    stepWhileResetting => stepGravity = Zero

\* during the one countdown a step has run and a mousemove has then written a
\* vector that is not zero
C6_Witness ==
    /\ resets = 1
    /\ _isResetting
    /\ stepWhileResetting
    /\ lastWriter = "mouse"
    /\ gravity # Zero

\* C7 as stated (Spec): whatever triggers it, no countdown starts less than
\* SHAKE_COOLDOWN_MS after the previous countdown started.
C7_CooldownEveryTrigger ==
    [][(~_isResetting /\ _isResetting' /\ resets > 0)
           => now - _lastShakeMs >= SHAKE_COOLDOWN_MS]_vars

\* C7 as amended (Spec): a shake starts no countdown less than
\* SHAKE_COOLDOWN_MS after the previous countdown, of any trigger, started; a
\* double-click or double-tap is held back only while a countdown is in
\* progress, so it starts one no less than three ticks after the previous start.
C7_CooldownShakeOnly ==
    [][(~_isResetting /\ _isResetting' /\ resets > 0)
           => /\ trigger' = "shake" => now - _lastShakeMs >= SHAKE_COOLDOWN_MS
              /\ now - _lastShakeMs >= 3 * COUNTDOWN_INTERVAL_MS]_vars

\* a second countdown has been started by a shake
C7_Witness ==
    /\ resets = 2
    /\ trigger = "shake"
    /\ _isResetting
    /\ _lastShakeMs >= SHAKE_COOLDOWN_MS

\* C8 (SpecGravity): in every reachable state the magnitude of engine.gravity
\* is at most MAX_GRAVITY.
C8_GravityWithinMax ==
    MagSq(gravity) <= MAX_GRAVITY * MAX_GRAVITY

\* C9 (Spec): after startup, slider changes and completed resets the world holds
\* between 1 and 30 balls, as many as the clamped stored count (10 when nothing
\* is stored); balls never add up.
C9_BallsAreStoredCount ==
    LET stored == ParseInt(GetItemOrEmpty(localStorage, "gyroballs_count"))
    IN  /\ worldBalls \in 1..30
        /\ worldBalls = IF stored = <<>> THEN 10
                        ELSE IF stored[1] > 30 THEN 30
                        ELSE IF stored[1] < 1 THEN 1 ELSE stored[1]

\* the slider was moved to 30, then to 1, and a reset has completed since
C9_Witness ==
    /\ localStorage.gyroballs_count = <<<<"1">>>>
    /\ worldBalls = 1
    /\ resets = 1
    /\ ~_isResetting

\* C10 (SpecGravity): where permission is required, once the request has settled
\* to anything but 'granted' (to 'denied' or 'default', or by throwing),
\* initGyroscope has completed, onDenied has run exactly once, attaching the
\* one mousemove listener, and no deviceorientation listener is attached.
C10_DenialFallsBack ==
    permissionState \in {"denied", "default", "throws"}
        => /\ permissionRequired
           /\ gyroPc = "done"
           /\ onDeniedCalls = 1
           /\ mouseListeners = 1
           /\ ~orientationListener

\* requestPermission() threw and the mouse now steers gravity
C10_Witness ==
    /\ permissionState = "throws"
    /\ gyroPc = "done"
    /\ lastWriter = "mouse"

\* C11 (SpecGravity): the deviceorientation listener falls back to the mouse
\* exactly on the NO_DATA_THRESHOLD-th (fifth) event in a row with null beta
\* and null gamma: an event with data starts the run again, the fifth null
\* event in a row detaches the listener and calls onNoGyroscope, and the
\* callback runs at most once in all.
C11_FallbackOnFifthNull ==
    [][LET event == orientationListener /\ nullRun' # nullRun
           fifth == event /\ nullRun' = NO_DATA_THRESHOLD
           fallback == orientationListener /\ onDeniedCalls' = onDeniedCalls + 1
       IN  /\ fallback <=> fifth
           /\ fallback => /\ ~orientationListener'
                          /\ mouseListeners' = mouseListeners + 1
           /\ (orientationListener /\ ~fifth) => orientationListener'
           /\ onDeniedCalls' <= 1
           /\ orientationListener' => onDeniedCalls' = 0]_vars

\* the listener got data, then five null events in a row, and has fallen back
C11_Witness ==
    /\ lastWriter = "gyro"
    /\ nullRun = NO_DATA_THRESHOLD
    /\ ~orientationListener
    /\ onDeniedCalls = 1
    /\ mouseListeners = 1

\* C12 (SpecFeedback): from a setSoundEnabled(false) until the next
\* setSoundEnabled(true) no handler starts a sound, neither a collision sound
\* nor a countdown beep, and from a setVibrationEnabled(false) until the next
\* setVibrationEnabled(true) no handler calls navigator.vibrate.
C12_TogglesRespected ==
    /\ (lastSetSound # <<>> /\ ~ToBoolean(lastSetSound[1])) => soundOut = <<>>
    /\ (lastSetVibration # <<>> /\ ~ToBoolean(lastSetVibration[1])) => vibrateOut = <<>>

\* with sound switched off and vibration switched off and on again, a
\* collision during a countdown has vibrated and made no sound
C12_Witness ==
    /\ audio = "ok"
    /\ lastSetSound = <<JsBool(FALSE)>>
    /\ lastSetVibration = <<JsBool(TRUE)>>
    /\ _isResetting
    /\ numberEl = 2
    /\ vibrateOut # <<>>
    /\ soundOut = <<>>

\* C13 (SpecFeedback): no handler ends by an uncaught exception.  Where the
\* Web Audio constructor is missing or throws, no sound is started, no context
\* is kept, and a countdown in progress has its timer pending.  Where
\* navigator.vibrate is missing, the collision listener of vibration.js is not
\* attached: nothing is called and no cooldown is recorded.  Where it throws,
\* the handler goes on to the next pair: both pairs of a collision are tried
\* and recorded.
C13_FailuresAreSilent ==
    LET kBB == PairKey(BallBallPair.bodyA.id, BallBallPair.bodyB.id)
        kWB == PairKey(WallBallPair.bodyA.id, WallBallPair.bodyB.id)
    IN  /\ ~uncaught
        /\ audio # "ok" => (soundOut = <<>> /\ ~sound_ctx)
        /\ _isResetting => Len(timers) = 1
        /\ vibrate = "missing"
               => /\ ~vibration_supported
                  /\ vibrateOut = <<>>
                  /\ \A k \in PairKeys : vibration_cooldowns[k] = <<>>
        /\ vibrate = "throws"
               => /\ vibration_supported
                  /\ Len(vibrateOut) \in {0, 2}
                  /\ vibration_cooldowns[kBB] = vibration_cooldowns[kWB]

\* where both the constructor and navigator.vibrate throw, a collision during
\* a countdown that has ticked once has tried to vibrate for both pairs
C13_Witness ==
    /\ audio = "throws"
    /\ vibrate = "throws"
    /\ _isResetting
    /\ numberEl = 2
    /\ Len(vibrateOut) = 2

\* the values Boolean() turns into true: all but false, 0, NaN, '', undefined
\* and null
IsTruthy(x) ==
    x \notin {[t |-> "boolean", v |-> "false"], [t |-> "number", v |-> "0"],
              [t |-> "number", v |-> "NaN"], [t |-> "string", v |-> ""],
              [t |-> "undefined", v |-> ""], [t |-> "null", v |-> ""]}

\* C14 (SpecFlags): once setSoundEnabled(x) has been called, the flag of
\* sound.js and the flag _readEnabled reads from storage are Boolean(x) of the
\* last call, also after the page has been loaded again; the same holds for
\* vibration; and with nothing stored a flag is enabled.
C14_FlagsRoundTrip ==
    /\ lastSetSound # <<>>
           => /\ sound_enabled = IsTruthy(lastSetSound[1])
              /\ ReadEnabled(localStorage, "gyroballs_sound") = IsTruthy(lastSetSound[1])
    /\ lastSetVibration # <<>>
           => /\ vibration_enabled = IsTruthy(lastSetVibration[1])
              /\ ReadEnabled(localStorage, "gyroballs_vibration")
                     = IsTruthy(lastSetVibration[1])
    /\ ~setSinceLoad
           => /\ sound_enabled = ReadEnabled(localStorage, "gyroballs_sound")
              /\ vibration_enabled = ReadEnabled(localStorage, "gyroballs_vibration")
    /\ localStorage.gyroballs_sound = <<>> => sound_enabled
    /\ localStorage.gyroballs_vibration = <<>> => vibration_enabled

\* setSoundEnabled('') and setVibrationEnabled('0') were called and the page
\* was loaded again: the checkboxes show what was loaded, sound off and
\* vibration on
C14_Witness ==
    /\ ~setSinceLoad
    /\ lastSetSound = <<[t |-> "string", v |-> ""]>>
    /\ lastSetVibration = <<[t |-> "string", v |-> "0"]>>
    /\ localStorage.gyroballs_sound = <<<<"0">>>>
    /\ ~sound_enabled
    /\ ~checkSound
    /\ vibration_enabled
    /\ checkVibration

\* C15 (SpecSettings): after a 'change' event of the slider with value n in
\* 1..30 the stored count is the numeral of n, the world holds n balls, and
\* the counts read at startup and at a reset are n, also once the page has
\* been loaded again or a reset has completed; an 'input' event changes the
\* number displayed and leaves storage and the world as they are.
C15_CountRoundTrip ==
    /\ [](lastChange # <<>>
             => /\ lastChange[1] \in 1..30
                /\ localStorage.gyroballs_count = <<ToString(lastChange[1])>>
                /\ physics_storedBallCount(localStorage) = lastChange[1]
                /\ reset_storedBallCount(localStorage) = lastChange[1]
                /\ worldBalls = lastChange[1])
    /\ [][(lastSliderEvent' = "input" /\ displayBalls' # displayBalls)
              => /\ localStorage' = localStorage
                 /\ world' = world
                 /\ displayBalls' = ToString(sliderBalls')]_vars

\* the slider was released at 7, the page was loaded again, and a reset has
\* completed since
C15_Witness ==
    /\ lastChange = <<7>>
    /\ lastSliderEvent = "none"
    /\ resets = 1
    /\ ~_isResetting
    /\ worldBalls = 7

\* C16 (SpecPanel): a click on the gear flips the panel between shown and
\* hidden, once; a click outside the panel and the gear leaves the panel
\* hidden; a click inside the panel leaves it shown; and whenever the panel
\* has been shown or hidden, aria-expanded is 'true' exactly when the panel is
\* not hidden.
C16_PanelDismissible ==
    [][clicks' = clicks + 1
          => /\ lastClick' = "gear" => panelHidden' = ~panelHidden
             /\ lastClick' = "outside" => panelHidden'
             /\ lastClick' = "panel" => (~panelHidden /\ ~panelHidden')
             /\ panelHidden' # panelHidden
                    => ((ariaExpanded' = <<"true">>) <=> ~panelHidden')]_vars

\* the gear has opened the panel, a click outside has closed it, the gear has
\* opened it again and a click inside has left it open
C16_Witness ==
    /\ clicks = 4
    /\ lastClick = "panel"
    /\ ~panelHidden
    /\ ariaExpanded = <<"true">>

\* the bodies of a world that are not balls, and the rectangles of its bodies
\* labelled l
WallsOf(bodies) == SelectSeq(bodies, LAMBDA b : b.label # "ball")

RectsOf(bodies, l) ==
    {bodies[i].rect[1] : i \in {j \in 1..Len(bodies) : bodies[j].label = l}}

\* C17 (SpecWalls): the bodies of the world that are not balls are four walls,
\* top, bottom, left and right, placed for the current viewport; a step that
\* leaves the viewport as it is leaves the walls as they are, however many
\* balls it removes; and a step that resizes the viewport leaves the balls as
\* they are.
C17_FourWalls ==
    /\ [](/\ Len(WallsOf(world)) = 4
          /\ RectsOf(world, "wall-top")
                 = {[x2 |-> innerWidth, y2 |-> -WALL_THICKNESS,
                     width |-> innerWidth + 2 * WALL_THICKNESS,
                     height |-> WALL_THICKNESS]}
          /\ RectsOf(world, "wall-bottom")
                 = {[x2 |-> innerWidth, y2 |-> 2 * innerHeight + WALL_THICKNESS,
                     width |-> innerWidth + 2 * WALL_THICKNESS,
                     height |-> WALL_THICKNESS]}
          /\ RectsOf(world, "wall-left")
                 = {[x2 |-> -WALL_THICKNESS, y2 |-> innerHeight,
                     width |-> WALL_THICKNESS,
                     height |-> innerHeight + 2 * WALL_THICKNESS]}
          /\ RectsOf(world, "wall-right")
                 = {[x2 |-> 2 * innerWidth + WALL_THICKNESS, y2 |-> innerHeight,
                     width |-> WALL_THICKNESS,
                     height |-> innerHeight + 2 * WALL_THICKNESS]})
    /\ [][/\ <<innerWidth', innerHeight'>> = <<innerWidth, innerHeight>>
                 => WallsOf(world') = WallsOf(world)
          /\ <<innerWidth', innerHeight'>> # <<innerWidth, innerHeight>>
                 => /\ worldBalls' = worldBalls
                    /\ WallsOf(world') # WallsOf(world)]_vars

\* the window has been resized, the slider released on another count and a reset
\* has completed: the world holds the thirty balls and the walls
C17_Witness ==
    /\ <<innerWidth, innerHeight>> = <<800, 600>>
    /\ lastChange = <<30>>
    /\ resets = 1
    /\ ~_isResetting
    /\ Len(world) = 34

\* C18 (SpecSensors): whatever events, resizes and resets came before, the
\* vector a deviceorientation event with data writes is the tilt mapping of
\* that event's beta and gamma, and the vector a mousemove writes is the cursor
\* mapping of that event's position and the viewport's size at the event: a
\* function of the event alone.
C18_NoHiddenState ==
    [][lastEvent' # lastEvent
          => /\ lastEvent'.kind = "gyro"
                    => gravity' = TiltToGravity(lastEvent'.a, lastEvent'.b)
             /\ lastEvent'.kind = "mouse"
                    => /\ gravity' = MouseToGravity(lastEvent'.a[1], lastEvent'.b[1],
                                                    lastEvent'.w, lastEvent'.h)
                       /\ <<lastEvent'.w, lastEvent'.h>> = <<innerWidth, innerHeight>>]_vars

\* a run of null events has handed control to the mouse, the window has been
\* resized, a countdown has frozen gravity and ended, and a mousemove writes a
\* vector again
C18_Witness ==
    /\ lastWriter = "mouse"
    /\ lastEvent.kind = "mouse"
    /\ nullRun = NO_DATA_THRESHOLD
    /\ resets = 1
    /\ ~_isResetting
    /\ <<lastEvent.w, lastEvent.h>> = <<2, 2>>
    /\ gravity # Zero

\* C19 (Spec): an event that arrives while a countdown is in progress, at a
\* step that is neither a tick of the timer nor the passing of time, leaves the
\* number displayed, the timestamp of the cooldown, the gravity override and
\* the timestamp of the last tap as they are.
C19_TriggersIgnored ==
    [][(_isResetting /\ now' = now /\ timers' = timers)
          => /\ numberEl' = numberEl
             /\ _lastShakeMs' = _lastShakeMs
             /\ _gravityOverride' = _gravityOverride
             /\ _lastTapMs' = _lastTapMs]_vars

\* the vector the handler of an event computes from the event
EventVector(e) ==
    IF e.kind = "gyro" THEN TiltToGravity(e.a, e.b)
    ELSE MouseToGravity(e.a[1], e.b[1], e.w, e.h)

\* C20 (SpecGravity): the first physics step after a countdown, one that
\* follows a step taken during the countdown, finds no gravity override and
\* runs with the vector computed from the most recent deviceorientation or
\* mousemove event.
C20_ControlResumes ==
    [][(stepWhileResetting /\ ~stepWhileResetting')
          => /\ _gravityOverride = <<>>
             /\ stepGravity' = gravity'
             /\ lastEvent.kind \in {"gyro", "mouse"}
                    => stepGravity' = EventVector(lastEvent)]_vars

\* C21 (SpecLive): where time passes and the interval timer keeps firing, every
\* countdown ends: from a state where _isResetting holds the program reaches
\* one where _isResetting is false, the gravity override is null, the overlay
\* is hidden and no interval timer is pending.
C21_CountdownEnds ==
    _isResetting ~> (/\ ~_isResetting
                     /\ _gravityOverride = <<>>
                     /\ overlayHidden
                     /\ timers = <<>>)

\* a countdown started by a shake after the page had been open for a while has
\* ended, steps having run during it and after it
C21_Witness ==
    /\ resets = 1
    /\ trigger = "shake"
    /\ _lastShakeMs > 0
    /\ now = _lastShakeMs + 3 * COUNTDOWN_INTERVAL_MS
    /\ ~_isResetting
    /\ stepGravity = Zero
    /\ ~stepWhileResetting
    /\ timers = <<>>
    /\ overlayHidden

\* C22 (Spec): in every reachable state and for every acceleration, a
\* devicemotion event starts a countdown exactly when no countdown is in
\* progress, no countdown has started yet or at least SHAKE_COOLDOWN_MS have
\* passed since the last one was triggered, the acceleration is present, and
\* the square of its magnitude, null components taken as 0, is greater than
\* the square of SHAKE_THRESHOLD.
C22_ShakeStartsExactlyWhen ==
    \A acc \in Accels :
        LET part(v) == IF v = <<>> THEN 0 ELSE v[1]
            magSq == part(acc[1].x) * part(acc[1].x) + part(acc[1].y) * part(acc[1].y)
                         + part(acc[1].z) * part(acc[1].z)
            starts == ENABLED (/\ DeviceMotion(acc)
                               /\ _isResetting'
                               /\ resets' = resets + 1
                               /\ trigger' = "shake"
                               /\ _lastShakeMs' = now)
            stays == ENABLED (DeviceMotion(acc) /\ UNCHANGED resetVars)
        IN  /\ starts <=> (/\ ~_isResetting
                           /\ (resets = 0 \/ now - _lastShakeMs >= SHAKE_COOLDOWN_MS)
                           /\ acc # <<>>
                           /\ magSq > SHAKE_THRESHOLD * SHAKE_THRESHOLD)
            /\ starts <=> ~stays

\* the first shake, at time 0, has started a countdown
C22_Witness ==
    /\ resets = 1
    /\ trigger = "shake"
    /\ _lastShakeMs = 0
    /\ now = 0
    /\ _isResetting
    /\ shown = <<3>>

\* C23 (SpecFeedback): in each countdown playCountdownBeep is called with step
\* 4 - c for each count c displayed, in the order 1, 2, 3 and three times in
\* all; the first call is made by the trigger, the final tick makes none, and
\* the overlay is visible exactly while _isResetting holds.
C23_ThreeBeeps ==
    /\ [](/\ Len(beepCalls) = Len(shown)
          /\ \A i \in 1..Len(shown) : beepCalls[i] = 4 - shown[i]
          /\ beepCalls = SubSeq(<<1, 2, 3>>, 1, Len(beepCalls))
          /\ _isResetting => beepCalls # <<>>
          /\ (~_isResetting /\ resets > 0) => beepCalls = <<1, 2, 3>>
          /\ overlayHidden <=> ~_isResetting)
    /\ [][/\ (~_isResetting /\ _isResetting') => beepCalls' = <<1>>
          /\ (_isResetting /\ ~_isResetting') => beepCalls' = beepCalls]_vars

\* a countdown has run to its end with sound switched off during it: the three
\* calls were made all the same
C23_Witness ==
    /\ resets = 1
    /\ ~_isResetting
    /\ ~sound_enabled
    /\ beepCalls = <<1, 2, 3>>
    /\ shown = <<3, 2, 1>>
    /\ overlayHidden

\* C24 (SpecSettings): the tick that completes a countdown leaves the world
\* with none of the balls it had and with as many new ones as the count stored
\* at that tick, clamped to 1..30, whatever was stored when the countdown was
\* triggered: where the slider's last 'change' came during the countdown, the
\* world holds the number of that change.
C24_CountReadAtCompletion ==
    [][(_isResetting /\ ~_isResetting')
          => LET stored == localStorage.gyroballs_count
                 n == IF stored = <<>> THEN <<>> ELSE ParseInt(stored[1])
                 count == IF n = <<>> THEN 10
                          ELSE IF n[1] > 30 THEN 30
                          ELSE IF n[1] < 1 THEN 1 ELSE n[1]
             IN  /\ worldBalls' = count
                 /\ Len(world') = count + 4
                 /\ changeWhileResetting => worldBalls' = lastChange[1]]_vars

\* the slider was released at 30 during the one countdown, which had been
\* triggered with another count stored and has ended with thirty balls
C24_Witness ==
    /\ changeWhileResetting
    /\ lastChange = <<30>>
    /\ resets = 1
    /\ ~_isResetting
    /\ lastSliderEvent = "change"
    /\ worldBalls = 30

\* C25 (SpecCount): whatever string is stored, the three readers of the ball
\* count return the same number: physics.js's _storedBallCount, which sizes the
\* world at startup, reset.js's _storedBallCount, which sizes it at a reset,
\* and _applyStoredValues, which sets the slider and the number displayed.
C25_ReadersAgree ==
    /\ physics_storedBallCount(localStorage) = reset_storedBallCount(localStorage)
    /\ reset_storedBallCount(localStorage) = settings_storedCount(localStorage)
    /\ ~_isResetting => worldBalls = sliderBalls
    /\ resets = 0 => worldBalls = physics_storedBallCount(localStorage)
    /\ (resets > 0 /\ ~_isResetting)
           => worldBalls = reset_storedBallCount(localStorage)
    /\ sliderBalls = settings_storedCount(localStorage)
    /\ displayBalls = ToString(sliderBalls)

\* '99' is stored: the world was built with 30 balls, the slider stands at 30
\* and a reset has built 30 balls again
C25_Witness ==
    /\ localStorage.gyroballs_count = <<<<"9", "9">>>>
    /\ resets = 1
    /\ ~_isResetting
    /\ worldBalls = 30
    /\ sliderBalls = 30
    /\ displayBalls = <<"3", "0">>

\* C26 (SpecGravity): where permission is required, the deviceorientation
\* listener is attached, and the tilt writes gravity, only once the button has
\* been clicked and the request has settled to 'granted'; the overlay is shown
\* only where permission is required and only until the button is clicked,
\* whatever the request settles to; the button's handler runs at most once, the
\* request never being made a second time.
C26_PermissionGate ==
    /\ [](/\ (permissionRequired /\ (orientationListener \/ lastEvent.kind = "gyro"))
                 => (permissionState = "granted" /\ gyroPc = "done")
          /\ ~permissionOverlayHidden
                 => (permissionRequired /\ gyroPc = "awaitClick"
                         /\ permissionState = "unasked")
          /\ permissionRequired => (permissionOverlayHidden <=> gyroPc # "awaitClick")
          /\ ~permissionRequired => (permissionState = "unasked" /\ gyroPc = "done"))
    /\ [][/\ gyroPc' = "awaitClick" => gyroPc = "awaitClick"
          /\ gyroPc' = "requesting" => gyroPc \in {"awaitClick", "requesting"}
          /\ permissionState # "unasked" => permissionState' = permissionState
          /\ permissionOverlayHidden => permissionOverlayHidden']_vars

\* the button was clicked, the request was granted and a tilt has written
\* gravity
C26_Witness ==
    /\ permissionRequired
    /\ permissionState = "granted"
    /\ permissionOverlayHidden
    /\ orientationListener
    /\ lastWriter = "gyro"
    /\ mouseListeners = 0

\* C27 (SpecGravity): the deviceorientation listener and the mousemove
\* listener are never both attached, and initMouse runs at most once: after a
\* request that was not granted, or when the gyroscope listener has counted
\* NO_DATA_THRESHOLD null events and removed itself, never for both reasons.
C27_OneInputSource ==
    LET denied == permissionState \in {"denied", "default", "throws"}
        noData == nullCount >= NO_DATA_THRESHOLD
    IN  /\ ~(orientationListener /\ mouseListeners > 0)
        /\ mouseListeners <= 1
        /\ onDeniedCalls = mouseListeners
        /\ mouseListeners = 1 <=> (denied \/ noData)
        /\ ~(denied /\ noData)
        /\ lastEvent.kind = "mouse" => ~orientationListener

\* permission was granted, five null events handed control to the mouse, and
\* the mouse has written gravity
C27_Witness ==
    /\ permissionState = "granted"
    /\ nullCount = NO_DATA_THRESHOLD
    /\ ~orientationListener
    /\ mouseListeners = 1
    /\ onDeniedCalls = 1
    /\ lastWriter = "mouse"

\* the pair of ids of an entry of soundOut or vibrateOut
IdsOf(entry) == {entry.ids[n] : n \in 1..Len(entry.ids)}

\* no entry of the feedback `out`, given at time t, comes less than COOLDOWN_MS
\* after the last feedback `at` of its pair, or twice for one pair
Spaced(out, at, t) ==
    \A i \in 1..Len(out) :
        out[i].ids # <<>>
            => /\ at[IdsOf(out[i])] = <<>> \/ t - at[IdsOf(out[i])][1] >= COOLDOWN_MS
               /\ \A j \in 1..Len(out) : j # i => IdsOf(out[j]) # IdsOf(out[i])

\* each pair of the event `pairs` whose own last feedback `at` is COOLDOWN_MS
\* old or older has an entry in the feedback `out`
NotDelayed(pairs, out, at) ==
    \A i \in 1..Len(pairs) :
        LET k == {pairs[i].bodyA.id, pairs[i].bodyB.id}
        IN  (at[k] = <<>> \/ now - at[k][1] >= COOLDOWN_MS)
                => \E j \in 1..Len(out) :
                       out[j].ids = <<pairs[i].bodyA.id, pairs[i].bodyB.id>>

\* C28 (SpecThrottle): for one pair of body ids, whichever body is A or B, no
\* collision sound starts less than COOLDOWN_MS after the last one, and
\* navigator.vibrate is not called less than COOLDOWN_MS after its last call;
\* and once the page is COOLDOWN_MS old, a fast pair whose own last feedback is
\* COOLDOWN_MS old or older gets its feedback whatever other pairs collided.
C28_ThrottledPerPair ==
    /\ [][Spaced(soundOut', soundAt, now') /\ Spaced(vibrateOut', vibrateAt, now')]_vars
    /\ [](\A pairs \in ThrottleEvents :
              /\ (sound_enabled /\ audio = "ok" /\ now >= COOLDOWN_MS)
                     => NotDelayed(pairs, SoundOnCollision(pairs).out, soundAt)
              /\ (vibration_enabled /\ vibration_supported /\ now >= COOLDOWN_MS)
                     => NotDelayed(pairs, VibrationOnCollision(pairs).out, vibrateAt))

\* the balls 1 and 2 collided at 80 ms and again, the other way round, at 160
\* ms, with sound and vibration both times; the wall pair gave its last at 120
C28_Witness ==
    /\ now = 160
    /\ soundAt[{1, 2}] = <<160>>
    /\ vibrateAt[{1, 2}] = <<160>>
    /\ soundAt[{1, 7}] = <<120>>
    /\ Len(soundOut) = 1
    /\ soundOut[1].ids = <<2, 1>>

\* the feedback a pair is due: <<>> for none, <<"ball">> for the click of two
\* balls whose relative speed is MIN_SPEED or more, <<"wall">> for the thud of
\* a ball whose own speed is MIN_SPEED or more on a wall; speeds are compared
\* by their squares
DueFeedback(pair) ==
    LET a == pair.bodyA
        b == pair.bodyB
        sq(vx, vy) == vx * vx + vy * vy
    IN  IF a.label = "ball" /\ b.label = "ball"
        THEN IF sq(a.vx - b.vx, a.vy - b.vy) >= MIN_SPEED * MIN_SPEED
             THEN <<"ball">> ELSE <<>>
        ELSE IF a.label = "ball" /\ b.label \in WallLabels
        THEN IF sq(a.vx, a.vy) >= MIN_SPEED * MIN_SPEED THEN <<"wall">> ELSE <<>>
        ELSE IF b.label = "ball" /\ a.label \in WallLabels
        THEN IF sq(b.vx, b.vy) >= MIN_SPEED * MIN_SPEED THEN <<"wall">> ELSE <<>>
        ELSE <<>>

\* C29 (SpecPairs): in every reachable state, with sound and vibration on and
\* at hand, a collision of a pair that is neither two balls at a relative speed
\* of MIN_SPEED or more nor a ball at MIN_SPEED or more on a wall gives no
\* sound and no vibration and leaves the cooldown maps as they are; a collision
\* of a pair that is, once the page and the pair's last feedback are
\* COOLDOWN_MS old, gives one vibration and one sound, the click for two balls
\* and the thud for a ball on a wall.  A slow collision of a pair thus never
\* holds back the feedback of a fast one of the same pair.
C29_OnlyBallPairs ==
    \A pair \in PairsTried :
        LET s == SoundOnCollision(<<pair>>)
            v == VibrationOnCollision(<<pair>>)
            k == {pair.bodyA.id, pair.bodyB.id}
            due == DueFeedback(pair)
            old(at) == now >= COOLDOWN_MS
                           /\ (at[k] = <<>> \/ now - at[k][1] >= COOLDOWN_MS)
        IN  /\ due = <<>>
                   => /\ s.out = <<>> /\ s.cooldowns = sound_cooldowns
                      /\ v.out = <<>> /\ v.cooldowns = vibration_cooldowns
            /\ (due # <<>> /\ old(soundAt))
                   => /\ Len(s.out) = 1
                      /\ s.out[1].kind = due[1]
                      /\ s.out[1].ids = <<pair.bodyA.id, pair.bodyB.id>>
            /\ (due # <<>> /\ old(vibrateAt))
                   => /\ Len(v.out) = 1
                      /\ v.out[1].ids = <<pair.bodyA.id, pair.bodyB.id>>
            /\ \A i \in 1..Len(soundOut) : soundOut[i].kind \in {"ball", "wall"}

\* ball 1 has hit ball 2 fast at 80 ms, giving the click; at 160 ms it has hit
\* the top wall, giving the thud, and then, slow, ball 2 again, giving nothing
C29_Witness ==
    /\ now = 160
    /\ soundAt[{1, 2}] = <<80>>
    /\ soundAt[{1, 7}] = <<160>>
    /\ soundAt[{5, 8}] = <<80>>
    /\ soundOut = <<>>
    /\ vibrateOut = <<>>

\* C30 (SpecSpeeds): _speedToVolume gives every speed a volume from 0 to 1: 0
\* for a speed of MIN_SPEED or less, 1 for a speed of MAX_SPEED or more, and
\* for no smaller speed a greater volume.
C30_VolumeInRange ==
    speedCall # <<>>
        => LET speed == speedCall[1].speed
               volume == speedCall[1].volume
           IN  /\ volume >= 0
               /\ volume <= Scale
               /\ speed <= MIN_SPEED => volume = 0
               /\ speed >= MAX_SPEED => volume = Scale
               /\ \A slower \in Speeds :
                      slower <= speed => SpeedToVolume(slower) <= volume

\* C31 (SpecSpeeds): _speedToDuration gives every speed a whole number of
\* milliseconds from MIN_DURATION_MS to MAX_DURATION_MS: MIN_DURATION_MS for a
\* speed of MIN_SPEED or less, MAX_DURATION_MS for a speed of MAX_SPEED or
\* more, and for no smaller speed a longer duration.
C31_DurationInRange ==
    speedCall # <<>>
        => LET speed == speedCall[1].speed
               duration == speedCall[1].duration
           IN  /\ duration \in MIN_DURATION_MS..MAX_DURATION_MS
               /\ speed <= MIN_SPEED => duration = MIN_DURATION_MS
               /\ speed >= MAX_SPEED => duration = MAX_DURATION_MS
               /\ \A slower \in Speeds :
                      slower <= speed => SpeedToDuration(slower) <= duration

\* a speed between the two limits got a duration between the two limits, and
\* speeds below MIN_SPEED and above MAX_SPEED are among those tried
C31_Witness ==
    /\ speedCall # <<>>
    /\ speedCall[1].speed > MIN_SPEED
    /\ speedCall[1].speed < MAX_SPEED
    /\ speedCall[1].duration > MIN_DURATION_MS
    /\ speedCall[1].duration < MAX_DURATION_MS
    /\ \E low \in Speeds : low < MIN_SPEED
    /\ \E high \in Speeds : high > MAX_SPEED

\* C32 (SpecGravity): a deviceorientation event with null beta and null gamma
\* leaves engine.gravity as it is; it adds one to the null counter, on the
\* fifth such event in a row it also detaches the listener and attaches the
\* mouse fallback, and it changes nothing else.
C32_NullEventKeepsGravity ==
    [][(orientationListener /\ nullRun' = nullRun + 1)
          => /\ gravity' = gravity
             /\ nullCount' = nullCount + 1
             /\ nullRun' < NO_DATA_THRESHOLD
                   => UNCHANGED <<orientationListener, mouseListeners, onDeniedCalls>>
             /\ UNCHANGED <<now, _lastTapMs, tapped, stepGravity, stepWhileResetting,
                            lastWriter, lastEvent, resetVars, worldVars, envVars,
                            gyroPc, permissionOverlayHidden, permissionState,
                            feedbackVars>>]_vars

\* an event with data tilted gravity sideways, two events without data
\* followed, and gravity is still tilted
C32_Witness ==
    /\ orientationListener
    /\ lastWriter = "gyro"
    /\ nullRun = 2
    /\ nullCount = 2
    /\ gravity.x > 0

\* C33 (SpecPairs): while sound is on and audio is at hand, a collision at
\* MIN_SPEED or more of a pair that has had no sound yet, or whose last sound
\* is COOLDOWN_MS old or older, gives a sound, whatever the time; and while
\* vibration is on and supported, the same for a vibration.
C33_FirstCollisionFelt ==
    \A pair \in PairsTried :
        LET s == SoundOnCollision(<<pair>>)
            v == VibrationOnCollision(<<pair>>)
            k == {pair.bodyA.id, pair.bodyB.id}
            free(at) == at[k] = <<>> \/ now - at[k][1] >= COOLDOWN_MS
        IN  /\ (DueFeedback(pair) # <<>> /\ sound_enabled /\ audio = "ok"
                   /\ free(soundAt))
                   => /\ Len(s.out) = 1
                      /\ s.out[1].ids = <<pair.bodyA.id, pair.bodyB.id>>
            /\ (DueFeedback(pair) # <<>> /\ vibration_enabled
                   /\ vibration_supported /\ free(vibrateAt))
                   => /\ Len(v.out) = 1
                      /\ v.out[1].ids = <<pair.bodyA.id, pair.bodyB.id>>

\* C34 (Spec): a countdown started by touch takes two touchend events on the
\* canvas less than DOUBLE_TAP_MS apart: the touchend that starts it comes less
\* than DOUBLE_TAP_MS after an earlier touchend, so a touchend with none
\* before it starts no countdown, whatever the time.
C34_TapTakesTwo ==
    [][(~_isResetting /\ _isResetting' /\ trigger' = "tap")
          => /\ tapped
             /\ now - _lastTapMs < DOUBLE_TAP_MS]_vars

\* C35 (SpecToggles): after initSettings and any 'change' events of the two
\* toggles, the sound checkbox is checked exactly when sound.js's _enabled is
\* true and exactly when the item stored under 'gyroballs_sound' is not '0',
\* and the vibration checkbox is checked exactly when vibration.js's _enabled
\* is true and exactly when the item under 'gyroballs_vibration' is not '0'.
C35_TogglesConsistent ==
    /\ checkSound <=> sound_enabled
    /\ checkSound <=> localStorage["gyroballs_sound"] # <<<<"0">>>>
    /\ checkVibration <=> vibration_enabled
    /\ checkVibration <=> localStorage["gyroballs_vibration"] # <<<<"0">>>>

\* the user has switched sound off and vibration off and on again since the
\* page loaded
C35_Witness ==
    /\ setSinceLoad
    /\ ~checkSound
    /\ ~sound_enabled
    /\ localStorage["gyroballs_sound"] = <<<<"0">>>>
    /\ lastSetVibration = <<JsBool(TRUE)>>
    /\ checkVibration
    /\ vibration_enabled
    /\ localStorage["gyroballs_vibration"] = <<<<"1">>>>

====
